---------------------------- MODULE Spec2Model ----------------------------
(***************************************************************************)
(* Model of the temporal aggregation and as-of join engine of the NBA game *)
(* dashboard: src/data.py (load_process_pbs, load_process_tbs,              *)
(* build_ranks), src/tables.py (player_hit_rate_summary) and src/export.py *)
(* (export_player_scoring).  src/db_queries.py holds the same trailing and  *)
(* ranking code behind a database loader.                                   *)
(*                                                                          *)
(* Tables are sequences of records, one record per row, in row order.      *)
(* A float is an exact reduced fraction <<num, den>>; <<0, 0>> is NaN.     *)
(* The means of the program are quotients of integer sums by counts, so    *)
(* two of them are equal as floats exactly when the fractions are equal.   *)
(* Dates are day numbers.  A team code is its index in the alphabetically  *)
(* sorted list of codes, so < on teams is the order of the strings.        *)
(***************************************************************************)
EXTENDS Integers, Sequences, FiniteSets, TLC

VARIABLES
    pbs_csv,        \* rows of player_boxscores_2025_26.csv, in file order
    league_csv,     \* rows of league_gamelog_2025_26.csv, in file order
    pbs,            \* the table load_process_pbs returned
    tbs,            \* the table load_process_tbs returned
    daily_ranks,    \* the table build_ranks returned
    player_df,      \* the joined game rows of player_hit_rate_summary
    summary_table,  \* the rows player_hit_rate_summary returned
    export_join,    \* the joined game rows of export_player_scoring
    export_df,      \* the table export_player_scoring returned
    loaded,         \* which of the tables above have been computed
    session_state,  \* st.session_state of the dashboard
    screen,         \* what the last run of the dashboard script rendered
    scraper         \* the call of scrape_top_n_tweets

vars == <<pbs_csv, league_csv, pbs, tbs, daily_ranks, player_df,
          summary_table, export_join, export_df, loaded,
          session_state, screen, scraper>>

-----------------------------------------------------------------------------
(* Bounds of the model *)

\* rows of a short player box score file
MaxRows == 3
\* games of the one player of a long player box score file
MaxGames == 12
\* games of a long file in which the player scores high
MaxHigh == 2

\* games of a league game log
MaxLogGames == 2

\* games of the league game log of two teams that meet day after day
MaxSeasonGames == 11

PbsPlayers == {1, 2}
PbsDates == {1, 2}
PointVals == {10, 20, 30}
\* the league: three teams, a season of three days, two final scores
Teams == {1, 2, 3}
Days == {1, 2, 3}
ScoreVals == {100, 110}
\* the players and the prop line the dashboard asks about
Subjects == {1, 2}
PropLines == {15}

-----------------------------------------------------------------------------
(* The dashboard session and the scraper before they run *)

\* None in a session key that holds a team, a player or a prop line
None == -1
\* None in a session key that holds "home" or "away"
NoneStr == "None"

\* st.session_state after the initialisation of the first run
NewSession ==
    [selected_team |-> None,
     selected_player_id |-> None,
     selected_opponent |-> None,
     prop_line |-> None,
     prev_team |-> None,
     player_team_home_away |-> NoneStr,
     opponent_team_home_away |-> NoneStr]

\* the page before the script has run: no button, no matchup
NoScreen ==
    [team_buttons |-> FALSE,
     opp_buttons |-> FALSE,
     header_home |-> None,
     header_away |-> None,
     summary_side |-> NoneStr,
     comparison_home |-> None,
     comparison_away |-> None,
     error |-> NoneStr]

\* scrape_top_n_tweets has not been called
NoScrape ==
    [n |-> 0, pages |-> <<>>, instances |-> <<>>, tried |-> <<>>,
     outcome |-> "idle", tweets |-> <<>>]

-----------------------------------------------------------------------------
(* Floats *)

NaN == <<0, 0>>

IsNaN(x) == x[2] = 0

RECURSIVE GCD(_, _)
GCD(a, b) == IF b = 0 THEN a ELSE GCD(b, a % b)

\* s / n for integers s >= 0, n >= 0 (0 / 0 is NaN)
Quot(s, n) ==
    IF n = 0 THEN NaN
    ELSE LET g == GCD(s, n) IN <<s \div g, n \div g>>

Num(p) == <<p, 1>>

\* the missing value of a team code column and of a date column (NaT)
NoTeam == 0
NaT == 0

\* x < y for two floats that are not NaN
FLess(x, y) == x[1] * y[2] < y[1] * x[2]

RECURSIVE SumSeq(_)
SumSeq(s) == IF s = <<>> THEN 0 ELSE Head(s) + SumSeq(Tail(s))

-----------------------------------------------------------------------------
(* DataFrame helpers *)

\* a sequence given as a function on 1..n, as the tuple of its elements
Table(f) == f \o <<>>

\* DataFrame.sort_values on several columns: a stable sort.  Row i comes
\* before row j when its key is smaller, or the keys tie and i is earlier.
SortValues(t, Less(_, _)) ==
    LET n == Len(t)
        Before(j, i) == Less(t[j], t[i]) \/ (~Less(t[i], t[j]) /\ j < i)
        pos == Table([i \in 1..n |->
                         1 + Cardinality({j \in 1..n : Before(j, i)})])
    IN  Table([k \in 1..n |-> t[CHOOSE i \in 1..n : pos[i] = k]])

\* the rows of t that satisfy Test, in order
Filter(t, Test(_)) == SelectSeq(t, Test)

Column(t, Get(_)) == Table([k \in 1..Len(t) |-> Get(t[k])])

\* the row r with its column old named new
Rename(r, old, new) ==
    [c \in (DOMAIN r \ {old}) \cup {new} |->
        IF c = new THEN r[old] ELSE r[c]]

\* DataFrame.tail(n)
Tail_n(t, n) == IF Len(t) <= n THEN t ELSE SubSeq(t, Len(t) - n + 1, Len(t))

-----------------------------------------------------------------------------
(* Trailing aggregator: src/data.py lines 25-43 *)

\* the sort key ["personId", "game_date"]
PbsLess(a, b) ==
    \/ a.personId < b.personId
    \/ a.personId = b.personId /\ a.game_date < b.game_date

\* the series left as it is, the current game included
ShiftKeep(s) == s

\* Series.shift(1): every value moves one row down, the first becomes NaN

Shift1(s) == Table([i \in 1..Len(s) |-> IF i = 1 THEN NaN ELSE s[i - 1]])

\* mean of the cells lo..hi of s that are not NaN; NaN below min_periods
WindowMean(s, lo, hi, min_periods) ==
    LET vals == SelectSeq(SubSeq(s, lo, hi), LAMBDA c : ~IsNaN(c))
    IN  IF Len(vals) < min_periods THEN NaN
        ELSE Quot(SumSeq(Table([j \in 1..Len(vals) |-> vals[j][1]])),
                  Len(vals))

\* the expanding mean with the NaN cells counted as games of 0 points
ExpandingMeanZeroFill(s) ==
    Table([i \in 1..Len(s) |->
              Quot(SumSeq(Table([j \in 1..i |-> s[j][1]])), i)])

\* Series.expanding().mean(): min_periods defaults to 1
ExpandingMean(s) == Table([i \in 1..Len(s) |-> WindowMean(s, 1, i, 1)])

\* the rolling mean with the window never closing
RollingAll(s, window, min_periods) == ExpandingMean(s)

\* Series.rolling(window, min_periods).mean()

RollingMean(s, window, min_periods) ==
    Table([i \in 1..Len(s) |->
              WindowMean(s, IF i - window + 1 > 1 THEN i - window + 1 ELSE 1,
                         i, min_periods)])

\* the rolling window of r10_avg_ppg
Window == 10

\* groupby("personId")["points"]: the points of one player, in table order
GroupPoints(t, pid) ==
    Column(Filter(t, LAMBDA r : r.personId = pid), LAMBDA r : Num(r.points))

\* position of row k of t inside its personId group
GroupPos(t, k) == Cardinality({j \in 1..k : t[j].personId = t[k].personId})

\* a minutes cell: absent (an empty csv cell, a NULL), or a string held as
\* the sequence of its characters
NoMinutes == [isna |-> TRUE, chars |-> <<>>]

MinutesStr(chars) == [isna |-> FALSE, chars |-> chars]

DigitChars == <<"0", "1", "2", "3", "4", "5", "6", "7", "8", "9">>

IsDigit(c) == \E i \in 1..10 : DigitChars[i] = c

DigitVal(c) == (CHOOSE i \in 1..10 : DigitChars[i] = c) - 1

RECURSIVE DigitsVal(_)
DigitsVal(chars) ==
    IF chars = <<>> THEN 0
    ELSE 10 * DigitsVal(SubSeq(chars, 1, Len(chars) - 1))
             + DigitVal(chars[Len(chars)])

\* int(text): blanks around it and one sign before the digits are taken,
\* anything else is a ValueError
IntOf(chars) ==
    LET inked == {k \in 1..Len(chars) : chars[k] # " "}
        body == IF inked = {} THEN <<>>
                ELSE SubSeq(chars, CHOOSE a \in inked : \A b \in inked : a <= b,
                            CHOOSE a \in inked : \A b \in inked : b <= a)
        signed == body # <<>> /\ body[1] \in {"+", "-"}
        digits == IF signed THEN SubSeq(body, 2, Len(body)) ELSE body
    IN  IF digits = <<>> \/ \E k \in 1..Len(digits) : ~IsDigit(digits[k])
        THEN [ok |-> FALSE, val |-> 0]
        ELSE [ok |-> TRUE,
              val |-> IF signed /\ body[1] = "-" THEN 0 - DigitsVal(digits)
                      ELSE DigitsVal(digits)]

\* the ValueError that split's unpacking or int() raises, in the place of
\* the float
ValueError == <<0, -1>>

IsValueError(x) == x[2] < 0

\* m, s = text.split(":"); int(m) + int(s) / 60, or the ValueError of the
\* unpacking or of int()
SplitMinutes(chars) ==
    LET colons == {k \in 1..Len(chars) : chars[k] = ":"}
        c == CHOOSE k \in colons : TRUE
        m == IntOf(SubSeq(chars, 1, c - 1))
        sec == IntOf(SubSeq(chars, c + 1, Len(chars)))
    IN  IF Cardinality(colons) # 1 THEN ValueError
        ELSE IF ~m.ok \/ ~sec.ok THEN ValueError
        ELSE Quot(60 * m.val + sec.val, 60)

\* pd.read_csv: an empty cell is NaN
read_csv_cell(cell) == IF cell.chars = <<>> THEN NoMinutes ELSE cell

\* minutes_to_float of load_process_pbs (data.py lines 17-21): None for NaN,
\* the exception of split or int otherwise left to the caller
minutes_to_float(cell) ==
    IF cell.isna THEN NaN ELSE SplitMinutes(cell.chars)

\* minutes_to_float of load_process_pbs_from_db (db_queries.py lines
\* 162-169): None for NULL, "" and what split or int refuse
minutes_to_float_db(cell) ==
    IF cell.isna \/ cell.chars = <<>> THEN NaN
    ELSE IF IsValueError(SplitMinutes(cell.chars)) THEN NaN
    ELSE SplitMinutes(cell.chars)

\* Series.apply on the minutes column of a table that has one
ApplyMinutes(t, Convert(_)) ==
    Table([k \in 1..Len(t) |->
        IF "minutes" \in DOMAIN t[k]
        THEN [t[k] EXCEPT !.minutes = Convert(t[k].minutes)]
        ELSE t[k]])

\* the apply of line 23 raises: a row whose minutes split or int refuse
pbs_raises(csv) ==
    \E k \in 1..Len(csv) :
        /\ "minutes" \in DOMAIN csv[k]
        /\ IsValueError(minutes_to_float(read_csv_cell(csv[k].minutes)))

\* lines 25-43, after the minutes column is converted
load_process_pbs(csv) ==
    LET sorted == SortValues(
                      ApplyMinutes(csv, LAMBDA cell :
                          minutes_to_float(read_csv_cell(cell))),
                      PbsLess)
        pids == {csv[k].personId : k \in 1..Len(csv)}
        szn == [pid \in pids |->
                   ExpandingMean(Shift1(GroupPoints(sorted, pid)))]
        r10 == [pid \in pids |->
                   RollingMean(Shift1(GroupPoints(sorted, pid)), Window, 1)]
    IN  Table([k \in 1..Len(sorted) |->
            sorted[k] @@
            [szn_avg_ppg |-> szn[sorted[k].personId][GroupPos(sorted, k)],
             r10_avg_ppg |-> r10[sorted[k].personId][GroupPos(sorted, k)]]])

\* load_process_pbs_from_db (db_queries.py lines 158-193): the rows of the
\* query, the same sort and the same averages
load_process_pbs_from_db(rows) ==
    LET sorted == SortValues(ApplyMinutes(rows, minutes_to_float_db), PbsLess)
        pids == {rows[k].personId : k \in 1..Len(rows)}
        szn == [pid \in pids |->
                   ExpandingMean(Shift1(GroupPoints(sorted, pid)))]
        r10 == [pid \in pids |->
                   RollingMean(Shift1(GroupPoints(sorted, pid)), Window, 1)]
    IN  Table([k \in 1..Len(sorted) |->
            sorted[k] @@
            [szn_avg_ppg |-> szn[sorted[k].personId][GroupPos(sorted, k)],
             r10_avg_ppg |-> r10[sorted[k].personId][GroupPos(sorted, k)]]])

-----------------------------------------------------------------------------
(* Team box scores: src/data.py lines 49-80 *)

\* the pairs <<i, j>> of row numbers (i of n left rows, j of m right rows)
\* that Match, left rows in order and, for one left row, right rows in order
MergePairs(n, m, Match(_, _)) ==
    SelectSeq(Table([k \in 1..(n * m) |->
                        <<((k - 1) \div m) + 1, ((k - 1) % m) + 1>>]),
              LAMBDA p : Match(p[1], p[2]))

\* the merge without the filter of the rows joined to themselves
load_process_tbs_keep_self(csv) ==
    Column(MergePairs(Len(csv), Len(csv),
               LAMBDA i, j : csv[i].GAME_ID = csv[j].GAME_ID),
           LAMBDA pr : csv[pr[1]] @@
                       [OPP_TEAM |-> csv[pr[2]].TEAM_ABBREVIATION,
                        PTS_ALLOWED |-> csv[pr[2]].PTS])

load_process_tbs(csv) ==
    LET opp == Table([j \in 1..Len(csv) |->
                   [GAME_ID |-> csv[j].GAME_ID,
                    OPP_TEAM |-> csv[j].TEAM_ABBREVIATION,
                    OPP_PTS |-> csv[j].PTS]])
        pairs == MergePairs(Len(csv), Len(opp),
                     LAMBDA i, j : csv[i].GAME_ID = opp[j].GAME_ID)
        merged == Table([k \in 1..Len(pairs) |->
                      csv[pairs[k][1]] @@
                      [OPP_TEAM |-> opp[pairs[k][2]].OPP_TEAM,
                       PTS_ALLOWED |-> opp[pairs[k][2]].OPP_PTS]])
    IN  Filter(merged, LAMBDA r : r.TEAM_ABBREVIATION # r.OPP_TEAM)

-----------------------------------------------------------------------------
(* League ranking builder: src/data.py lines 82-129 *)

\* the rows dated on day d or before it
PriorGamesInclusive(t, d) == Filter(t, LAMBDA r : r.GAME_DATE <= d)

\* tbs[tbs["GAME_DATE"] < game_date]
PriorGames(t, d) == Filter(t, LAMBDA r : r.GAME_DATE < d)

\* the teams of t, each once, in the order of their first rows
FirstSeenKeys(t) ==
    LET first == SelectSeq(Table([i \in 1..Len(t) |-> i]),
                     LAMBDA i : \A j \in 1..(i - 1) :
                         t[j].TEAM_ABBREVIATION # t[i].TEAM_ABBREVIATION)
    IN  Table([k \in 1..Len(first) |-> t[first[k]].TEAM_ABBREVIATION])

\* the group keys as groupby(sort=False) has them
GroupKeysUnsorted(t) == FirstSeenKeys(t)

\* groupby("TEAM_ABBREVIATION"): sort=True, the group keys in sorted order
GroupKeys(t) == SortValues(FirstSeenKeys(t), LAMBDA a, b : a < b)

\* the ranks of the cells of s, every tie sharing its smallest rank
RankMin(s, ascending) ==
    Table([i \in 1..Len(s) |->
        Num(1 + Cardinality({j \in 1..Len(s) :
                IF ascending THEN FLess(s[j], s[i]) ELSE FLess(s[i], s[j])}))])

\* the ranks of the cells of s, always smallest value first
RankFirstAscending(s, ascending) ==
    Table([i \in 1..Len(s) |->
        Num(1 + Cardinality({j \in 1..Len(s) : FLess(s[j], s[i])})
              + Cardinality({j \in 1..(i - 1) : s[j] = s[i]}))])

\* Series.rank(method="first", ascending): rank 1 to the smallest (largest
\* when descending) value, equal values ranked in the order of their rows
RankFirst(s, ascending) ==
    Table([i \in 1..Len(s) |->
        Num(1 + Cardinality({j \in 1..Len(s) :
                IF ascending THEN FLess(s[j], s[i]) ELSE FLess(s[i], s[j])})
              + Cardinality({j \in 1..(i - 1) : s[j] = s[i]}))])

\* the body of the loop for one game_date: the rows it appends, or none
RanksOn(t, d) ==
    LET prior == PriorGames(t, d)
        keys == GroupKeys(prior)
        agg == Table([i \in 1..Len(keys) |->
                   LET g == Filter(prior,
                                LAMBDA r : r.TEAM_ABBREVIATION = keys[i])
                   IN  [TEAM_ABBREVIATION |-> keys[i],
                        games_played |-> Len(g),
                        avg_pts |->
                            Quot(SumSeq(Column(g, LAMBDA r : r.PTS)), Len(g)),
                        avg_pts_allowed |->
                            Quot(SumSeq(Column(g, LAMBDA r : r.PTS_ALLOWED)),
                                 Len(g))]])
        off == RankFirst(Column(agg, LAMBDA r : r.avg_pts), FALSE)
        def == RankFirst(Column(agg, LAMBDA r : r.avg_pts_allowed), TRUE)
    IN  IF prior = <<>> THEN <<>>
        ELSE Table([i \in 1..Len(agg) |->
                 agg[i] @@ [off_rank |-> off[i], def_rank |-> def[i],
                            game_date |-> d]])

\* pd.concat of the rows of the days first..last
RECURSIVE ConcatDays(_, _, _)
ConcatDays(t, first, last) ==
    IF first > last THEN <<>>
    ELSE RanksOn(t, first) \o ConcatDays(t, first + 1, last)

\* the sort key ["game_date", "def_rank"]
RanksLess(a, b) ==
    \/ a.game_date < b.game_date
    \/ a.game_date = b.game_date /\ FLess(a.def_rank, b.def_rank)

SetMin(S) == CHOOSE x \in S : \A y \in S : x <= y

SetMax(S) == CHOOSE x \in S : \A y \in S : y <= x

\* the loop going over the GAME_DATE of every row of the table in the
\* place of the days of the season
RECURSIVE ConcatRowDates(_, _)
ConcatRowDates(t, k) ==
    IF k > Len(t) THEN <<>>
    ELSE RanksOn(t, t[k].GAME_DATE + 1) \o ConcatRowDates(t, k + 1)

build_ranks_each_row(t) == SortValues(ConcatRowDates(t, 1), RanksLess)

\* the loop ending on the last game date
build_ranks_to_last_game(t) ==
    LET dates == {t[k].GAME_DATE : k \in 1..Len(t)}
    IN  SortValues(ConcatDays(t, SetMin(dates), SetMax(dates)), RanksLess)

\* build_ranks of a table with at least one row
build_ranks(t) ==
    LET dates == {t[k].GAME_DATE : k \in 1..Len(t)}
        season_start == SetMin(dates)
        season_end == SetMax(dates) + 1
    IN  SortValues(ConcatDays(t, season_start, season_end), RanksLess)

-----------------------------------------------------------------------------
(* As-of join: pd.merge_asof(direction="backward") *)

\* how="left" merge: the pairs of MergePairs, and <<i, 0>> for every left
\* row i that matches no right row
LeftMergePairs(n, m, Match(_, _)) ==
    SelectSeq(Table([k \in 1..(n * (m + 1)) |->
                        <<((k - 1) \div (m + 1)) + 1, (k - 1) % (m + 1)>>]),
              LAMBDA pr : IF pr[2] = 0
                          THEN \A j \in 1..m : ~Match(pr[1], j)
                          ELSE Match(pr[1], pr[2]))

\* the join without its by key: the last row at or before on, of any team
AsofNoBy(right, right_on, right_by, on, by) ==
    LET c == {j \in 1..Len(right) : right[j][right_on] <= on}
    IN  IF c = {} THEN 0 ELSE SetMax(c)

\* the join with direction="forward": the first row of the key at or
\* after on
AsofForward(right, right_on, right_by, on, by) ==
    LET c == {j \in 1..Len(right) :
                 right[j][right_by] = by /\ right[j][right_on] >= on}
    IN  IF c = {} THEN 0 ELSE SetMin(c)

\* the number of the row of right (sorted on right_on) that merge_asof
\* attaches to a left row with the values on and by: the last row with the
\* same by key and right_on at or before on; 0 when there is none
AsofBackward(right, right_on, right_by, on, by) ==
    LET c == {j \in 1..Len(right) :
                 right[j][right_by] = by /\ right[j][right_on] <= on}
    IN  IF c = {} THEN 0 ELSE SetMax(c)

\* the columns a left row gets from row j of daily_ranks, NaN when j is 0
RankColumns(right, j) ==
    IF j = 0
    THEN [TEAM_ABBREVIATION |-> NoTeam, games_played |-> NaN,
          avg_pts |-> NaN, avg_pts_allowed |-> NaN, off_rank |-> NaN,
          def_rank |-> NaN, game_date_y |-> NaT]
    ELSE [TEAM_ABBREVIATION |-> right[j].TEAM_ABBREVIATION,
          games_played |-> Num(right[j].games_played),
          avg_pts |-> right[j].avg_pts,
          avg_pts_allowed |-> right[j].avg_pts_allowed,
          off_rank |-> right[j].off_rank,
          def_rank |-> right[j].def_rank,
          game_date_y |-> right[j].game_date]

-----------------------------------------------------------------------------
(* Hit-rate summary: src/tables.py *)

NoMatchup == [at |-> FALSE, opp |-> NoTeam]

\* the rows of the player (lines 36-39)
PlayerRows(player_id, p) == Filter(p, LAMBDA r : r.personId = player_id)

\* the games of the team of the player's first row (lines 44-52)
TeamGames(rows, t) ==
    Filter(t, LAMBDA r : r.TEAM_ABBREVIATION = rows[1].teamTricode)

\* player_df.merge(team_games, how="left") on the game id (lines 54-65)
MergeTeamGames(rows, team_games) ==
    Column(LeftMergePairs(Len(rows), Len(team_games),
               LAMBDA i, j : rows[i].game_id = team_games[j].GAME_ID),
           LAMBDA pr :
               rows[pr[1]] @@
               [game_date_dt |-> rows[pr[1]].game_date] @@
               (IF pr[2] = 0
                THEN [GAME_ID |-> 0, GAME_DATE_DT |-> NaT, WL |-> "NaN",
                      team_pts |-> NaN, MATCHUP |-> NoMatchup]
                ELSE [GAME_ID |-> team_games[pr[2]].GAME_ID,
                      GAME_DATE_DT |-> team_games[pr[2]].GAME_DATE,
                      WL |-> team_games[pr[2]].WL,
                      team_pts |-> Num(team_games[pr[2]].PTS),
                      MATCHUP |-> team_games[pr[2]].MATCHUP]))

\* player_df after the merge with team_games (lines 36-65)
TeamContext(player_id, p, t) ==
    MergeTeamGames(PlayerRows(player_id, p),
                   TeamGames(PlayerRows(player_id, p), t))

MissingMatchup(df) == \E k \in 1..Len(df) : df[k].MATCHUP = NoMatchup

\* the call raises: no row of the player (.iloc[0] of an empty column), or
\* a game without MATCHUP ("@" in NaN)
summary_raises(player_id, p, t) ==
    \/ \A k \in 1..Len(p) : p[k].personId # player_id
    \/ MissingMatchup(TeamContext(player_id, p, t))

\* the sides spelled in another case than the cohort filters have them
WithMatchupLowercase(df) ==
    Column(df, LAMBDA r :
        r @@ [HOME_AWAY |-> IF r.MATCHUP.at THEN "away" ELSE "home",
              OPP_TEAM |-> r.MATCHUP.opp])

\* HOME_AWAY and OPP_TEAM from MATCHUP (lines 67-80)
WithMatchup(df) ==
    Column(df, LAMBDA r :
        r @@ [HOME_AWAY |-> IF r.MATCHUP.at THEN "AWAY" ELSE "HOME",
              OPP_TEAM |-> r.MATCHUP.opp])

\* merge_asof of the sorted frames on game_date_dt by team (lines 85-93)
AttachRanks(left, right) ==
    Column(left, LAMBDA r :
        Rename(r, "game_date", "game_date_x") @@
        RankColumns(right,
            AsofBackward(right, "game_date", "TEAM_ABBREVIATION",
                         r.game_date_dt, r.OPP_TEAM)))

\* player_df after merge_asof (lines 67-93)
SummaryJoin(player_id, p, t, ranks) ==
    AttachRanks(
        SortValues(WithMatchup(TeamContext(player_id, p, t)),
                   LAMBDA a, b : a.game_date_dt < b.game_date_dt),
        SortValues(ranks, LAMBDA a, b : a.game_date < b.game_date))

\* the tier of a missing rank taken by the last branch
def_bucket_no_isna(rank) ==
    IF ~IsNaN(rank) /\ ~FLess(Num(10), rank) THEN "Top 10 Defense"
    ELSE IF ~IsNaN(rank) /\ ~FLess(Num(20), rank) THEN "Middle 10 Defense"
    ELSE "Bottom 10 Defense"

\* the tiers with rank 10 and rank 20 on the far side of their bounds
def_bucket_exclusive(rank) ==
    IF IsNaN(rank) THEN "None"
    ELSE IF FLess(rank, Num(10)) THEN "Top 10 Defense"
    ELSE IF FLess(rank, Num(20)) THEN "Middle 10 Defense"
    ELSE "Bottom 10 Defense"

def_bucket(rank) ==
    IF IsNaN(rank) THEN "None"
    ELSE IF ~FLess(Num(10), rank) THEN "Top 10 Defense"
    ELSE IF ~FLess(Num(20), rank) THEN "Middle 10 Defense"
    ELSE "Bottom 10 Defense"

\* player_df with the hit flag and the defense tier (lines 159-171)
SummaryFrame(player_id, prop_line, p, t, ranks) ==
    Column(SummaryJoin(player_id, p, t, ranks), LAMBDA r :
        r @@ [hit |-> r.points > prop_line,
              def_bucket |-> def_bucket(r.def_rank)])

\* round(100 * hits / games, 1) in tenths, a half going to the even tenth
RoundTenths(hits, games) ==
    LET q == (1000 * hits) \div games
        r == (1000 * hits) % games
    IN  IF 2 * r > games \/ (2 * r = games /\ q % 2 = 1) THEN q + 1 ELSE q

\* the row with a rate of 0 for a cohort without games
hit_row_zero_fill(df, label) ==
    [Category |-> label, Games |-> Len(df),
     HitRate |-> IF Len(df) = 0 THEN Num(0)
                 ELSE Quot(RoundTenths(Len(Filter(df, LAMBDA r : r.hit)),
                                       Len(df)), 10)]

hit_row(df, label) ==
    IF Len(df) = 0
    THEN [Category |-> label, Games |-> 0, HitRate |-> NaN]
    ELSE [Category |-> label, Games |-> Len(df),
          HitRate |->
              Quot(RoundTenths(Len(Filter(df, LAMBDA r : r.hit)), Len(df)),
                   10)]

\* the rows of the summary table (lines 190-231), no teammate tracked
SummaryRows(df) ==
    << hit_row(df, "Season (All Games)"),
       hit_row(Tail_n(df, 10), "Last 10 Games"),
       hit_row(Filter(df, LAMBDA r : r.WL = "W"), "Wins"),
       hit_row(Filter(df, LAMBDA r : r.WL = "L"), "Losses"),
       hit_row(Filter(df, LAMBDA r : r.HOME_AWAY = "HOME"), "Home"),
       hit_row(Filter(df, LAMBDA r : r.HOME_AWAY = "AWAY"), "Away"),
       hit_row(Filter(df, LAMBDA r : r.def_bucket = "Top 10 Defense"),
               "Top 10 Defense"),
       hit_row(Filter(df, LAMBDA r : r.def_bucket = "Middle 10 Defense"),
               "Middle 10 Defense"),
       hit_row(Filter(df, LAMBDA r : r.def_bucket = "Bottom 10 Defense"),
               "Bottom 10 Defense") >>

-----------------------------------------------------------------------------
(* Export: src/export.py *)

\* drop_duplicates(): the first of every group of equal rows
DropDuplicates(rows) ==
    Column(SelectSeq(Table([k \in 1..Len(rows) |-> k]),
                     LAMBDA k : \A j \in 1..(k - 1) : rows[j] # rows[k]),
           LAMBDA k : rows[k])

\* opp_lookup (lines 48-67): game, team and opponent, each triple once
OppLookup(t) ==
    DropDuplicates(
        Column(MergePairs(Len(t), Len(t),
                   LAMBDA i, j : /\ t[i].GAME_ID = t[j].GAME_ID
                                 /\ t[i].TEAM_ABBREVIATION
                                        # t[j].TEAM_ABBREVIATION),
               LAMBDA pr : [game_id |-> t[pr[1]].GAME_ID,
                            team |-> t[pr[1]].TEAM_ABBREVIATION,
                            OPP_TEAM |-> t[pr[2]].TEAM_ABBREVIATION]))

\* game_number and game_date_dt (lines 40-46)
Numbered(rows) ==
    Table([k \in 1..Len(rows) |->
        rows[k] @@ [game_number |-> k, game_date_dt |-> rows[k].game_date]])

\* the player's rows in (game_date, game_id) order (lines 33-46)
ExportRows(player_id, p) ==
    Numbered(SortValues(Filter(p, LAMBDA r : r.personId = player_id),
                 LAMBDA a, b :
                     \/ a.game_date < b.game_date
                     \/ a.game_date = b.game_date /\ a.game_id < b.game_id))

\* the opponents of the team of the player's first row (lines 69-72)
ExportOpponents(rows, t) ==
    Filter(OppLookup(t), LAMBDA r : r.team = rows[1].teamTricode)

NotUnique(t) ==
    \E i, j \in 1..Len(t) : i # j /\ t[i].game_id = t[j].game_id

\* the call raises: no row of the player (.iloc[0]), or a game_id twice on
\* either side of the one_to_one merge
export_raises(player_id, p, t) ==
    \/ \A k \in 1..Len(p) : p[k].personId # player_id
    \/ NotUnique(ExportRows(player_id, p))
    \/ NotUnique(ExportOpponents(ExportRows(player_id, p), t))

\* export_df.merge(opp_lookup rows of the team, how="left") (lines 71-76)
MergeOpponents(rows, opps) ==
    Column(LeftMergePairs(Len(rows), Len(opps),
               LAMBDA i, j : rows[i].game_id = opps[j].game_id),
           LAMBDA pr :
               rows[pr[1]] @@
               [OPP_TEAM |-> IF pr[2] = 0 THEN NoTeam
                             ELSE opps[pr[2]].OPP_TEAM])

\* daily_ranks with as_of_date, sorted on it (lines 83-91)
AsOfRanks(ranks) ==
    SortValues(Column(ranks, LAMBDA r :
                   r @@ [as_of_date |-> r.game_date + 1]),
               LAMBDA a, b : a.as_of_date < b.as_of_date)

\* a left row with the columns of row j of right, def_rank renamed
OppRankRow(r, right, j) ==
    Rename(r, "game_date", "game_date_x") @@
    [games_played |-> RankColumns(right, j).games_played,
     avg_pts |-> RankColumns(right, j).avg_pts,
     avg_pts_allowed |-> RankColumns(right, j).avg_pts_allowed,
     off_rank |-> RankColumns(right, j).off_rank,
     opp_def_rank |-> RankColumns(right, j).def_rank,
     game_date_y |-> RankColumns(right, j).game_date_y,
     as_of_date |-> IF j = 0 THEN NaT ELSE right[j].as_of_date]

\* merge_asof on game_date_dt and as_of_date by team (lines 93-102)
AttachOppRanks(left, right) ==
    Column(left, LAMBDA r :
        OppRankRow(r, right,
            AsofBackward(right, "as_of_date", "TEAM_ABBREVIATION",
                         r.game_date_dt, r.OPP_TEAM)))

\* export_df after merge_asof and the rename of def_rank (lines 71-102)
ExportJoin(player_id, p, t, ranks) ==
    AttachOppRanks(
        SortValues(MergeOpponents(ExportRows(player_id, p),
                       ExportOpponents(ExportRows(player_id, p), t)),
                   LAMBDA a, b : a.game_date_dt < b.game_date_dt),
        AsOfRanks(ranks))

\* the exported columns that the frame holds, in game_number order (lines
\* 108-207); game_date is not one of them, the join having split it into
\* game_date_x and game_date_y
ExportFrame(joined, prop_line) ==
    SortValues(
        Column(joined, LAMBDA r :
            [game_number |-> r.game_number,
             game_id |-> r.game_id,
             points |-> r.points,
             prop_line |-> prop_line,
             hit_prop_line |-> r.points >= prop_line,
             szn_avg_ppg |-> r.szn_avg_ppg,
             r10_avg_ppg |-> r.r10_avg_ppg,
             OPP_TEAM |-> r.OPP_TEAM,
             opp_def_rank |-> r.opp_def_rank]),
        LAMBDA a, b : a.game_number < b.game_number)

-----------------------------------------------------------------------------
(* Player box score files *)

\* a short file: any players, dates and points, game ids ascending or
\* descending along the file
ShortCsv(n, f, asc) ==
    Table([k \in 1..n |->
              [personId |-> f[k][1], game_date |-> f[k][2], points |-> f[k][3],
               game_id |-> IF asc THEN k ELSE n + 1 - k]])

\* a long file: one player, one game a day, oldest or newest game first;
\* the player scores 20 points in the games of high and 10 in the others
LongCsv(high, asc) ==
    Table([k \in 1..MaxGames |->
              LET g == IF asc THEN k ELSE MaxGames + 1 - k
              IN  [personId |-> 1, game_date |-> g, game_id |-> g,
                   points |-> IF g \in high THEN 20 ELSE 10]])

PbsCsvInit ==
    \/ \E n \in 1..MaxRows, asc \in BOOLEAN :
          \E f \in [1..n -> PbsPlayers \X PbsDates \X PointVals] :
              pbs_csv = ShortCsv(n, f, asc)
    \/ \E high \in SUBSET (1..MaxGames), asc \in BOOLEAN :
          /\ Cardinality(high) <= MaxHigh
          /\ pbs_csv = LongCsv(high, asc)

\* a league game log of n games, one game a day at most, in date order.
\* Game k is f[k] = <<away team, home team, day, away team wins>>; its two
\* rows are the away team's ("AWY @ HOM") and then the home team's
\* ("HOM vs. AWY").  MATCHUP is the pair of what the code reads of it:
\* whether it holds "@" and its last three characters.
LeagueCsv(n, f) ==
    Table([k \in 1..(2 * n) |->
        LET g == (k + 1) \div 2
            away == k % 2 = 1
            wins == away = f[g][4]
        IN  [GAME_ID |-> g,
             TEAM_ABBREVIATION |-> IF away THEN f[g][1] ELSE f[g][2],
             GAME_DATE |-> f[g][3],
             PTS |-> IF wins THEN SetMax(ScoreVals) ELSE SetMin(ScoreVals),
             MATCHUP |-> [at |-> away,
                          opp |-> IF away THEN f[g][2] ELSE f[g][1]],
             WL |-> IF wins THEN "W" ELSE "L"]])

LeagueCsvInit ==
    \E n \in 1..MaxLogGames :
        \E f \in [1..n -> Teams \X Teams \X Days \X BOOLEAN] :
            /\ \A g \in 1..n : f[g][1] # f[g][2]
            /\ \A g \in 1..(n - 1) : f[g][3] < f[g + 1][3]
            /\ league_csv = LeagueCsv(n, f)

\* the box scores that go with a league game log: every team has one
\* player, who has the team's code as personId, plays all its games and
\* scores its points less 90
BoxScoresOf(csv) ==
    Table([k \in 1..Len(csv) |->
        [personId |-> csv[k].TEAM_ABBREVIATION,
         teamTricode |-> csv[k].TEAM_ABBREVIATION,
         game_id |-> csv[k].GAME_ID,
         game_date |-> csv[k].GAME_DATE,
         points |-> csv[k].PTS - 90]])

-----------------------------------------------------------------------------
(* Operations *)

LoadProcessPbs ==
    /\ "pbs" \notin loaded
    /\ "pbs_raised" \notin loaded
    /\ IF pbs_raises(pbs_csv)
       THEN /\ loaded' = loaded \cup {"pbs_raised"}
            /\ UNCHANGED pbs
       ELSE /\ pbs' = load_process_pbs(pbs_csv)
            /\ loaded' = loaded \cup {"pbs"}
    /\ UNCHANGED <<session_state, screen, scraper>>
    /\ UNCHANGED <<pbs_csv, league_csv, tbs, daily_ranks, player_df,
                   summary_table, export_join, export_df>>

\* load_process_pbs_from_db on the same rows as the query's result
LoadProcessPbsFromDb ==
    /\ "pbs" \notin loaded
    /\ "pbs_raised" \notin loaded
    /\ pbs' = load_process_pbs_from_db(pbs_csv)
    /\ loaded' = loaded \cup {"pbs", "pbs_db"}
    /\ UNCHANGED <<session_state, screen, scraper>>
    /\ UNCHANGED <<pbs_csv, league_csv, tbs, daily_ranks, player_df,
                   summary_table, export_join, export_df>>

InitPbs ==
    /\ PbsCsvInit
    /\ league_csv = <<>>
    /\ pbs = <<>>
    /\ tbs = <<>>
    /\ daily_ranks = <<>>
    /\ player_df = <<>>
    /\ summary_table = <<>>
    /\ export_join = <<>>
    /\ export_df = <<>>
    /\ loaded = {}
    /\ session_state = NewSession
    /\ screen = NoScreen
    /\ scraper = NoScrape

NextPbs == LoadProcessPbs

SpecPbs == InitPbs /\ [][NextPbs]_vars


LoadProcessTbs ==
    /\ "tbs" \notin loaded
    /\ tbs' = load_process_tbs(league_csv)
    /\ loaded' = loaded \cup {"tbs"}
    /\ UNCHANGED <<session_state, screen, scraper>>
    /\ UNCHANGED <<pbs_csv, league_csv, pbs, daily_ranks, player_df,
                   summary_table, export_join, export_df>>

\* build_ranks(tbs); on a table without rows the call raises
BuildRanks ==
    /\ "tbs" \in loaded
    /\ "ranks" \notin loaded
    /\ tbs # <<>>
    /\ daily_ranks' = build_ranks(tbs)
    /\ loaded' = loaded \cup {"ranks"}
    /\ UNCHANGED <<session_state, screen, scraper>>
    /\ UNCHANGED <<pbs_csv, league_csv, pbs, tbs, player_df,
                   summary_table, export_join, export_df>>

\* player_hit_rate_summary(player_id, prop_line, pbs, tbs, daily_ranks)
PlayerHitRateSummary ==
    /\ "pbs" \in loaded /\ "tbs" \in loaded /\ "ranks" \in loaded
    /\ "summary" \notin loaded /\ "summary_raised" \notin loaded
    /\ \E player_id \in Subjects, prop_line \in PropLines :
          IF summary_raises(player_id, pbs, tbs)
          THEN /\ loaded' = loaded \cup {"summary_raised"}
               /\ UNCHANGED <<player_df, summary_table>>
          ELSE /\ player_df' = SummaryFrame(player_id, prop_line, pbs, tbs,
                                            daily_ranks)
               /\ summary_table' = SummaryRows(player_df')
               /\ loaded' = loaded \cup {"summary"}
    /\ UNCHANGED <<session_state, screen, scraper>>
    /\ UNCHANGED <<pbs_csv, league_csv, pbs, tbs, daily_ranks, export_join,
                   export_df>>

\* the export working on the caller's daily_ranks instead of a copy, and
\* moving its dates to the day after
ExportPlayerScoringInPlace ==
    /\ "pbs" \in loaded /\ "tbs" \in loaded /\ "ranks" \in loaded
    /\ "export" \notin loaded /\ "export_raised" \notin loaded
    /\ \E player_id \in Subjects, prop_line \in PropLines :
          IF export_raises(player_id, pbs, tbs)
          THEN /\ loaded' = loaded \cup {"export_raised"}
               /\ UNCHANGED <<export_join, export_df, daily_ranks>>
          ELSE /\ export_join' = ExportJoin(player_id, pbs, tbs, daily_ranks)
               /\ export_df' = ExportFrame(export_join', prop_line)
               /\ daily_ranks' =
                      Column(daily_ranks, LAMBDA r :
                          [r EXCEPT !.game_date = r.game_date + 1])
               /\ loaded' = loaded \cup {"export"}
    /\ UNCHANGED <<session_state, screen, scraper>>
    /\ UNCHANGED <<pbs_csv, league_csv, pbs, tbs, player_df, summary_table>>

\* export_player_scoring(player_id, prop_line, pbs, tbs, daily_ranks)
ExportPlayerScoring ==
    /\ "pbs" \in loaded /\ "tbs" \in loaded /\ "ranks" \in loaded
    /\ "export" \notin loaded /\ "export_raised" \notin loaded
    /\ \E player_id \in Subjects, prop_line \in PropLines :
          IF export_raises(player_id, pbs, tbs)
          THEN /\ loaded' = loaded \cup {"export_raised"}
               /\ UNCHANGED <<export_join, export_df>>
          ELSE /\ export_join' = ExportJoin(player_id, pbs, tbs, daily_ranks)
               /\ export_df' = ExportFrame(export_join', prop_line)
               /\ loaded' = loaded \cup {"export"}
    /\ UNCHANGED <<session_state, screen, scraper>>
    /\ UNCHANGED <<pbs_csv, league_csv, pbs, tbs, daily_ranks, player_df,
                   summary_table>>

\* the dashboard with the player table loaded and the league log on disk
InitRank ==
    /\ LeagueCsvInit
    /\ pbs_csv = BoxScoresOf(league_csv)
    /\ pbs = load_process_pbs(pbs_csv)
    /\ tbs = <<>>
    /\ daily_ranks = <<>>
    /\ player_df = <<>>
    /\ summary_table = <<>>
    /\ export_join = <<>>
    /\ export_df = <<>>
    /\ loaded = {"pbs"}
    /\ session_state = NewSession
    /\ screen = NoScreen
    /\ scraper = NoScrape

NextRank ==
    \/ LoadProcessTbs
    \/ BuildRanks
    \/ PlayerHitRateSummary
    \/ ExportPlayerScoring

SpecRank == InitRank /\ [][NextRank]_vars

\* build_ranks(tbs) called once more
BuildRanksAgain ==
    /\ "ranks" \in loaded
    /\ daily_ranks' = build_ranks(tbs)
    /\ loaded' = loaded \cup {"ranks_again"}
    /\ UNCHANGED <<session_state, screen, scraper>>
    /\ UNCHANGED <<pbs_csv, league_csv, pbs, tbs, player_df,
                   summary_table, export_join, export_df>>

\* player_hit_rate_summary called once more, for any player
PlayerHitRateSummaryAgain ==
    /\ "ranks" \in loaded
    /\ "summary" \in loaded \/ "summary_raised" \in loaded
    /\ \E player_id \in Subjects, prop_line \in PropLines :
          IF summary_raises(player_id, pbs, tbs)
          THEN /\ loaded' = loaded \cup {"summary_raised", "summary_again"}
               /\ UNCHANGED <<player_df, summary_table>>
          ELSE /\ player_df' = SummaryFrame(player_id, prop_line, pbs, tbs,
                                            daily_ranks)
               /\ summary_table' = SummaryRows(player_df')
               /\ loaded' = loaded \cup {"summary", "summary_again"}
    /\ UNCHANGED <<session_state, screen, scraper>>
    /\ UNCHANGED <<pbs_csv, league_csv, pbs, tbs, daily_ranks, export_join,
                   export_df>>

\* export_player_scoring called once more, for any player
ExportPlayerScoringAgain ==
    /\ "ranks" \in loaded
    /\ "export" \in loaded \/ "export_raised" \in loaded
    /\ \E player_id \in Subjects, prop_line \in PropLines :
          IF export_raises(player_id, pbs, tbs)
          THEN /\ loaded' = loaded \cup {"export_raised", "export_again"}
               /\ UNCHANGED <<export_join, export_df>>
          ELSE /\ export_join' = ExportJoin(player_id, pbs, tbs, daily_ranks)
               /\ export_df' = ExportFrame(export_join', prop_line)
               /\ loaded' = loaded \cup {"export", "export_again"}
    /\ UNCHANGED <<session_state, screen, scraper>>
    /\ UNCHANGED <<pbs_csv, league_csv, pbs, tbs, daily_ranks, player_df,
                   summary_table>>

\* the dashboard rerun: every call may come again
NextRerun ==
    \/ LoadProcessTbs
    \/ BuildRanks
    \/ PlayerHitRateSummary
    \/ ExportPlayerScoring
    \/ BuildRanksAgain
    \/ PlayerHitRateSummaryAgain
    \/ ExportPlayerScoringAgain

SpecRerun == InitRank /\ [][NextRerun]_vars

\* a league game log of MaxSeasonGames games of teams 1 and 2, one a day,
\* the away side alternating; the away team wins the game high and no other
SeasonCsv(first_away, high) ==
    LeagueCsv(MaxSeasonGames,
        [g \in 1..MaxSeasonGames |->
            IF (g % 2 = 1) = first_away
            THEN <<1, 2, g, g = high>>
            ELSE <<2, 1, g, g = high>>])

SeasonCsvInit ==
    \E first_away \in BOOLEAN : \E high \in 0..MaxSeasonGames :
        league_csv = SeasonCsv(first_away, high)

\* the dashboard on the short logs of SpecRank and on the long ones
InitSeason ==
    /\ LeagueCsvInit \/ SeasonCsvInit
    /\ pbs_csv = BoxScoresOf(league_csv)
    /\ pbs = load_process_pbs(pbs_csv)
    /\ tbs = <<>>
    /\ daily_ranks = <<>>
    /\ player_df = <<>>
    /\ summary_table = <<>>
    /\ export_join = <<>>
    /\ export_df = <<>>
    /\ loaded = {"pbs"}
    /\ session_state = NewSession
    /\ screen = NoScreen
    /\ scraper = NoScrape

SpecSeason == InitSeason /\ [][NextRank]_vars

-----------------------------------------------------------------------------
(* Claims about the trailing averages, checked under SpecPbs *)

\* a points value no file holds
PerturbVals == {15}

\* the file with the points of row r replaced by v
Perturb(csv, r, v) == [csv EXCEPT ![r].points = v]

\* the row of table t that holds row r of the file
RowOf(t, csv, r) ==
    CHOOSE k \in 1..Len(t) :
        t[k].personId = csv[r].personId /\ t[k].game_id = csv[r].game_id

\* the points of the games of row k's player before row k, in table order
PriorPoints(t, k) ==
    LET idx == {j \in 1..(k - 1) : t[j].personId = t[k].personId}
        before == SelectSeq([j \in 1..(k - 1) |-> j], LAMBDA j : j \in idx)
    IN  Table([i \in 1..Len(before) |-> t[before[i]].points])

\* x is the mean of the integers of s, and NaN when s is empty
IsMeanOf(x, s) ==
    IF s = <<>> THEN x = NaN
    ELSE x[2] > 0 /\ x[1] * Len(s) = SumSeq(s) * x[2]

\* the last n elements of s (all of s when it has fewer)
LastN(s, n) ==
    IF Len(s) <= n THEN s ELSE SubSeq(s, Len(s) - n + 1, Len(s))

\* C1: no leakage in the trailing averages.  Changing only the points of
\* one game leaves szn_avg_ppg and r10_avg_ppg unchanged at that game's own
\* row, at every earlier row of the player and at every row of the other
\* players; only later rows of the same player may change.
C1_NoLeakage ==
    "pbs" \in loaded =>
        \A r \in 1..Len(pbs_csv), v \in PerturbVals :
            LET alt == load_process_pbs(Perturb(pbs_csv, r, v))
                i == RowOf(pbs, pbs_csv, r)
            IN  \A j \in 1..Len(pbs) :
                    (pbs[j].personId # pbs[i].personId \/ j <= i) =>
                        /\ alt[j].szn_avg_ppg = pbs[j].szn_avg_ppg
                        /\ alt[j].r10_avg_ppg = pbs[j].r10_avg_ppg

\* C1 witness: a loaded table in which a perturbed game has a later game of
\* the same player whose season average does change.
C1_Witness ==
    /\ "pbs" \in loaded
    /\ \E r \in 1..Len(pbs_csv), v \in PerturbVals :
           LET alt == load_process_pbs(Perturb(pbs_csv, r, v))
               i == RowOf(pbs, pbs_csv, r)
           IN  /\ i > 1
               /\ pbs[i - 1].personId = pbs[i].personId
               /\ \E j \in (i + 1)..Len(pbs) :
                      alt[j].szn_avg_ppg # pbs[j].szn_avg_ppg

\* C2: season-to-date average.  At every row, szn_avg_ppg is the mean of the
\* points of the player's earlier rows, and NaN at the player's first row.
C2_SeasonAvg ==
    "pbs" \in loaded =>
        \A k \in 1..Len(pbs) : IsMeanOf(pbs[k].szn_avg_ppg, PriorPoints(pbs, k))

\* C2 witness: the scenario 10, 20, 30 of one player gives NaN, 10, 15.
C2_Witness ==
    /\ "pbs" \in loaded
    /\ Len(pbs) = 3
    /\ \A k \in 1..3 : pbs[k].personId = 1 /\ pbs[k].points = 10 * k
    /\ pbs[1].szn_avg_ppg = NaN
    /\ pbs[2].szn_avg_ppg = <<10, 1>>
    /\ pbs[3].szn_avg_ppg = <<15, 1>>

\* C3: rolling average.  At every row, r10_avg_ppg is the mean of the points
\* of the at most 10 immediately preceding rows of the player (one suffices),
\* and NaN at the player's first row.
C3_RollingAvg ==
    "pbs" \in loaded =>
        \A k \in 1..Len(pbs) :
            IsMeanOf(pbs[k].r10_avg_ppg, LastN(PriorPoints(pbs, k), 10))

\* C3 witness: a row with 11 or more earlier games whose rolling average
\* differs from its season average, and a second game averaging one game.
C3_Witness ==
    /\ "pbs" \in loaded
    /\ \E k \in 1..Len(pbs) :
           /\ Len(PriorPoints(pbs, k)) >= 11
           /\ pbs[k].r10_avg_ppg # pbs[k].szn_avg_ppg
    /\ pbs[2].personId = pbs[1].personId
    /\ pbs[2].r10_avg_ppg = Num(pbs[1].points)

-----------------------------------------------------------------------------
(* Claims about the daily ranks, checked under SpecRank *)

\* the rows of t of one team dated before day d
TeamGamesBefore(t, team, d) ==
    Filter(t, LAMBDA r : r.TEAM_ABBREVIATION = team /\ r.GAME_DATE < d)

\* the rows of daily_ranks dated d
RanksDated(d) == Filter(daily_ranks, LAMBDA r : r.game_date = d)

RankDates == {daily_ranks[k].game_date : k \in 1..Len(daily_ranks)}

\* the number of the first row of a team in t
FirstRow(t, team) ==
    SetMin({k \in 1..Len(t) : t[k].TEAM_ABBREVIATION = team})

\* C4: daily ranks use only earlier games.  In every row (team, date d) of
\* build_ranks, games_played, avg_pts and avg_pts_allowed are the count and
\* the means over exactly the team's games dated strictly before d.
C4_RanksUseEarlierGames ==
    "ranks" \in loaded =>
        \A k \in 1..Len(daily_ranks) :
            LET r == daily_ranks[k]
                g == TeamGamesBefore(tbs, r.TEAM_ABBREVIATION, r.game_date)
            IN  /\ r.games_played = Len(g)
                /\ IsMeanOf(r.avg_pts, Column(g, LAMBDA x : x.PTS))
                /\ IsMeanOf(r.avg_pts_allowed,
                            Column(g, LAMBDA x : x.PTS_ALLOWED))

\* C4 witness: a rank row of a team that also has a game on the row's date,
\* which the row leaves out.
C4_Witness ==
    /\ "ranks" \in loaded
    /\ \E k \in 1..Len(daily_ranks), j \in 1..Len(tbs) :
           /\ tbs[j].TEAM_ABBREVIATION = daily_ranks[k].TEAM_ABBREVIATION
           /\ tbs[j].GAME_DATE = daily_ranks[k].game_date
           /\ daily_ranks[k].games_played = 1
           /\ daily_ranks[k].avg_pts # Num(tbs[j].PTS)

\* C5: rank bijection.  On every date d of the build_ranks output there is
\* one row per team with a game before d, and both the off_rank values and
\* the def_rank values of these rows are exactly 1..K, K the number of such
\* teams.
C5_RankBijection ==
    "ranks" \in loaded =>
        \A d \in RankDates :
            LET rows == RanksDated(d)
                K == Cardinality({team \in Teams :
                         TeamGamesBefore(tbs, team, d) # <<>>})
            IN  /\ Len(rows) = K
                /\ {rows[i].off_rank : i \in 1..Len(rows)}
                       = {Num(x) : x \in 1..K}
                /\ {rows[i].def_rank : i \in 1..Len(rows)}
                       = {Num(x) : x \in 1..K}

\* C5 witness: a date with three ranked teams, two of them tied on points
\* scored.
C5_Witness ==
    /\ "ranks" \in loaded
    /\ \E d \in RankDates :
           LET rows == RanksDated(d)
           IN  /\ Len(rows) = 3
               /\ \E i, j \in 1..3 :
                      i # j /\ rows[i].avg_pts = rows[j].avg_pts

\* C6: rank direction.  Of two rows of one date, the one with the strictly
\* higher avg_pts has the strictly smaller off_rank, and the one with the
\* strictly lower avg_pts_allowed has the strictly smaller def_rank.
C6_RankDirection ==
    "ranks" \in loaded =>
        \A i, j \in 1..Len(daily_ranks) :
            LET a == daily_ranks[i]
                b == daily_ranks[j]
            IN  a.game_date = b.game_date =>
                    /\ FLess(b.avg_pts, a.avg_pts) =>
                           FLess(a.off_rank, b.off_rank)
                    /\ FLess(a.avg_pts_allowed, b.avg_pts_allowed) =>
                           FLess(a.def_rank, b.def_rank)

\* C6 witness: scoring averages 100, 105 and 110 on one date receive
\* off_rank 3, 2 and 1.
C6_Witness ==
    /\ "ranks" \in loaded
    /\ \E d \in RankDates :
           LET rows == RanksDated(d)
           IN  {<<rows[i].avg_pts, rows[i].off_rank>> : i \in 1..Len(rows)}
                   = {<<Num(100), Num(3)>>, <<Num(105), Num(2)>>,
                      <<Num(110), Num(1)>>}

\* C7 as stated: of two teams tied on average points scored (or allowed) on
\* a date, the team seen first in the game log has the smaller rank.
C7_TieFirstSeenInLog ==
    "ranks" \in loaded =>
        \A i, j \in 1..Len(daily_ranks) :
            LET a == daily_ranks[i]
                b == daily_ranks[j]
                aFirst == FirstRow(tbs, a.TEAM_ABBREVIATION)
                             < FirstRow(tbs, b.TEAM_ABBREVIATION)
            IN  (a.game_date = b.game_date /\ aFirst) =>
                    /\ a.avg_pts = b.avg_pts =>
                           FLess(a.off_rank, b.off_rank)
                    /\ a.avg_pts_allowed = b.avg_pts_allowed =>
                           FLess(a.def_rank, b.def_rank)

\* C7 amended: of two teams tied on average points scored (or allowed) on a
\* date, the team whose code sorts first has the smaller rank, wherever the
\* teams stand in the game log.
C7_TieSortedCode ==
    "ranks" \in loaded =>
        \A i, j \in 1..Len(daily_ranks) :
            LET a == daily_ranks[i]
                b == daily_ranks[j]
            IN  (/\ a.game_date = b.game_date
                 /\ a.TEAM_ABBREVIATION < b.TEAM_ABBREVIATION) =>
                    /\ a.avg_pts = b.avg_pts =>
                           FLess(a.off_rank, b.off_rank)
                    /\ a.avg_pts_allowed = b.avg_pts_allowed =>
                           FLess(a.def_rank, b.def_rank)

\* C7 witness: two teams tied on points scored, the one whose code sorts
\* first standing later in the game log and holding the smaller off_rank.
C7_Witness ==
    /\ "ranks" \in loaded
    /\ \E i, j \in 1..Len(daily_ranks) :
           LET a == daily_ranks[i]
               b == daily_ranks[j]
           IN  /\ a.game_date = b.game_date
               /\ a.avg_pts = b.avg_pts
               /\ a.TEAM_ABBREVIATION < b.TEAM_ABBREVIATION
               /\ FirstRow(tbs, b.TEAM_ABBREVIATION)
                      < FirstRow(tbs, a.TEAM_ABBREVIATION)
               /\ FLess(a.off_rank, b.off_rank)

-----------------------------------------------------------------------------
(* Claims on the as-of join, checked under SpecRank *)

\* the other team of the game game_id in the league log
OpponentOf(game_id, team) ==
    league_csv[CHOOSE k \in 1..Len(league_csv) :
                  /\ league_csv[k].GAME_ID = game_id
                  /\ league_csv[k].TEAM_ABBREVIATION # team].TEAM_ABBREVIATION

\* daily_ranks holds a row of team dated date with the rank def_rank
IsRankRow(team, date, rank) ==
    \E j \in 1..Len(daily_ranks) :
        /\ daily_ranks[j].TEAM_ABBREVIATION = team
        /\ daily_ranks[j].game_date = date
        /\ daily_ranks[j].def_rank = rank

\* daily_ranks holds a row of team whose effective date (its date plus
\* lag days) is after the date from and at or before the date cutoff
RankRowBetween(team, lag, from, cutoff) ==
    \E j \in 1..Len(daily_ranks) :
        /\ daily_ranks[j].TEAM_ABBREVIATION = team
        /\ daily_ranks[j].game_date + lag > from
        /\ daily_ranks[j].game_date + lag <= cutoff

\* C8: every game row that the as-of join gave a rank row, in
\* player_hit_rate_summary (effective date: the rank row's game_date) and
\* in export_player_scoring (effective date: as_of_date, the day after),
\* got a row of daily_ranks of the game's opponent, with an effective date
\* at or before the game's date, and the opponent has no other rank row
\* with an effective date after the attached one and at or before the
\* game's date.
C8_AsofBackwardPerKey ==
    /\ \A k \in 1..Len(player_df) :
          ~IsNaN(player_df[k].def_rank) =>
              /\ player_df[k].TEAM_ABBREVIATION
                     = OpponentOf(player_df[k].game_id,
                                  player_df[k].teamTricode)
              /\ IsRankRow(player_df[k].TEAM_ABBREVIATION,
                           player_df[k].game_date_y, player_df[k].def_rank)
              /\ player_df[k].game_date_y <= player_df[k].game_date_x
              /\ ~RankRowBetween(player_df[k].TEAM_ABBREVIATION, 0,
                                 player_df[k].game_date_y,
                                 player_df[k].game_date_x)
    /\ \A k \in 1..Len(export_join) :
          ~IsNaN(export_join[k].opp_def_rank) =>
              /\ export_join[k].OPP_TEAM
                     = OpponentOf(export_join[k].game_id,
                                  export_join[k].teamTricode)
              /\ IsRankRow(export_join[k].OPP_TEAM,
                           export_join[k].game_date_y,
                           export_join[k].opp_def_rank)
              /\ export_join[k].as_of_date = export_join[k].game_date_y + 1
              /\ export_join[k].as_of_date <= export_join[k].game_date_x
              /\ ~RankRowBetween(export_join[k].OPP_TEAM, 1,
                                 export_join[k].as_of_date,
                                 export_join[k].game_date_x)

\* the summary attached the later of two rank rows of the opponent that
\* are both at or before the game, on a date where another team has a row
\* too, and the export attached a rank row while the opponent has later
\* ones
C8_Witness ==
    /\ \E k \in 1..Len(player_df) :
          /\ ~IsNaN(player_df[k].def_rank)
          /\ RankRowBetween(player_df[k].TEAM_ABBREVIATION, 0, 0,
                            player_df[k].game_date_y - 1)
          /\ \E j \in 1..Len(daily_ranks) :
                /\ daily_ranks[j].game_date = player_df[k].game_date_y
                /\ daily_ranks[j].TEAM_ABBREVIATION
                       # player_df[k].TEAM_ABBREVIATION
    /\ \E k \in 1..Len(export_join) :
          /\ ~IsNaN(export_join[k].opp_def_rank)
          /\ RankRowBetween(export_join[k].OPP_TEAM, 1,
                            export_join[k].game_date_x,
                            export_join[k].game_date_x + 2)

\* the changes of a team's points tried on every row of the league log
ScoreShifts == {-50, 50}

\* the league log with the points of row k changed by delta
ShiftScore(csv, k, delta) == [csv EXCEPT ![k].PTS = @ + delta]

\* build_ranks on the team box scores of the league log csv
RanksOf(csv) == build_ranks(load_process_tbs(csv))

\* the joined rows that player_hit_rate_summary has for the team box
\* scores t
SummaryJoinWith(t) ==
    SummaryJoin(player_df[1].personId, pbs, t, build_ranks(t))

\* the joined rows that export_player_scoring has for the team box scores t
ExportJoinWith(t) ==
    ExportJoin(export_join[1].personId, pbs, t, build_ranks(t))

\* the same, for the league log csv
SummaryJoinOf(csv) == SummaryJoinWith(load_process_tbs(csv))
ExportJoinOf(csv) == ExportJoinWith(load_process_tbs(csv))

\* the column col of the game rows dated d or earlier is the same in the
\* frames df and other
SameUpTo(df, other, col, d) ==
    /\ Len(other) = Len(df)
    /\ \A i \in 1..Len(df) :
          df[i].game_date_x <= d =>
              /\ other[i].game_id = df[i].game_id
              /\ other[i][col] = df[i][col]

\* C9: the opponent defensive rank attached to a game played on date d, in
\* the summary frame and in the export, does not change when the points of
\* any team in any game dated d or later change: it is computed from games
\* before d only.
C9_NoFutureLeakage ==
    /\ "summary" \in loaded =>
          \A k \in 1..Len(league_csv) : \A delta \in ScoreShifts :
              SameUpTo(player_df,
                       SummaryJoinOf(ShiftScore(league_csv, k, delta)),
                       "def_rank", league_csv[k].GAME_DATE)
    /\ "export" \in loaded =>
          \A k \in 1..Len(league_csv) : \A delta \in ScoreShifts :
              SameUpTo(export_join,
                       ExportJoinOf(ShiftScore(league_csv, k, delta)),
                       "opp_def_rank", league_csv[k].GAME_DATE)

\* a change of points that changes the rank table, made to a game that is
\* not before a summary game with a rank and not before an export game
\* with a rank
C9_Witness ==
    /\ "summary" \in loaded
    /\ "export" \in loaded
    /\ \E k \in 1..Len(league_csv) : \E delta \in ScoreShifts :
          /\ RanksOf(ShiftScore(league_csv, k, delta)) # daily_ranks
          /\ \E i \in 1..Len(player_df) :
                /\ ~IsNaN(player_df[i].def_rank)
                /\ player_df[i].game_date_x <= league_csv[k].GAME_DATE
          /\ \E i \in 1..Len(export_join) :
                /\ ~IsNaN(export_join[i].opp_def_rank)
                /\ export_join[i].game_date_x <= league_csv[k].GAME_DATE

\* the Games of the summary row of the category label
GamesIn(label) ==
    summary_table[CHOOSE k \in 1..Len(summary_table) :
                     summary_table[k].Category = label].Games

\* the games of the summary frame that got a rank
RankedGames == Filter(player_df, LAMBDA r : ~IsNaN(r.def_rank))

\* C10: a game whose opponent has no rank row at or before the game's
\* cutoff (its date in the summary, as_of_date at or before its date in the
\* export) gets a null rank and no rank columns of any other row, its tier
\* is None, and the three defense tiers of the summary table count the
\* games with a rank only.
C10_MissingMatchIsNull ==
    /\ \A k \in 1..Len(player_df) :
          ~RankRowBetween(player_df[k].OPP_TEAM, 0, 0,
                          player_df[k].game_date_x) =>
              /\ IsNaN(player_df[k].def_rank)
              /\ IsNaN(player_df[k].off_rank)
              /\ player_df[k].TEAM_ABBREVIATION = NoTeam
              /\ player_df[k].def_bucket = "None"
    /\ \A k \in 1..Len(export_join) :
          ~RankRowBetween(export_join[k].OPP_TEAM, 1, 0,
                          export_join[k].game_date_x) =>
              /\ IsNaN(export_join[k].opp_def_rank)
              /\ IsNaN(export_df[k].opp_def_rank)
    /\ "summary" \in loaded =>
          GamesIn("Top 10 Defense") + GamesIn("Middle 10 Defense")
              + GamesIn("Bottom 10 Defense") = Len(RankedGames)

\* the summary has a game without a rank row and a game with one, and the
\* export has a game without a rank row
C10_Witness ==
    /\ "summary" \in loaded
    /\ "export" \in loaded
    /\ \E k \in 1..Len(player_df) :
          ~RankRowBetween(player_df[k].OPP_TEAM, 0, 0,
                          player_df[k].game_date_x)
    /\ Len(RankedGames) > 0
    /\ Len(RankedGames) < GamesIn("Season (All Games)")
    /\ \E k \in 1..Len(export_join) :
          ~RankRowBetween(export_join[k].OPP_TEAM, 1, 0,
                          export_join[k].game_date_x)

-----------------------------------------------------------------------------
(* Claims on the team box scores and the summary table, under SpecRank *)

\* the rows of the game game_id in the table t
RowsOfGame(t, game_id) == Filter(t, LAMBDA r : r.GAME_ID = game_id)

\* the row out of tbs is the row own of the league log with the points and
\* the code of the row other as PTS_ALLOWED and OPP_TEAM
IsTeamRow(out, own, other) ==
    /\ out.TEAM_ABBREVIATION = own.TEAM_ABBREVIATION
    /\ out.PTS = own.PTS
    /\ out.PTS_ALLOWED = other.PTS
    /\ out.OPP_TEAM = other.TEAM_ABBREVIATION

\* C11: for every game that has exactly two rows in the league log,
\* load_process_tbs returns exactly two rows, one per team, each with the
\* other team's points as PTS_ALLOWED and the other team's code as OPP_TEAM.
C11_PointsAllowedBySelfJoin ==
    "tbs" \in loaded =>
        \A k \in 1..Len(league_csv) :
            Len(RowsOfGame(league_csv, league_csv[k].GAME_ID)) = 2 =>
                /\ Len(RowsOfGame(tbs, league_csv[k].GAME_ID)) = 2
                /\ IsTeamRow(RowsOfGame(tbs, league_csv[k].GAME_ID)[1],
                       RowsOfGame(league_csv, league_csv[k].GAME_ID)[1],
                       RowsOfGame(league_csv, league_csv[k].GAME_ID)[2])
                /\ IsTeamRow(RowsOfGame(tbs, league_csv[k].GAME_ID)[2],
                       RowsOfGame(league_csv, league_csv[k].GAME_ID)[2],
                       RowsOfGame(league_csv, league_csv[k].GAME_ID)[1])

\* a 110-100 game loaded: 110 scored and 100 allowed for one team, 100
\* scored and 110 allowed for the other
C11_Witness ==
    /\ "tbs" \in loaded
    /\ \E i, j \in 1..Len(tbs) :
          /\ tbs[i].GAME_ID = tbs[j].GAME_ID
          /\ tbs[i].PTS = 110 /\ tbs[i].PTS_ALLOWED = 100
          /\ tbs[j].PTS = 100 /\ tbs[j].PTS_ALLOWED = 110
          /\ tbs[i].OPP_TEAM = tbs[j].TEAM_ABBREVIATION

-----------------------------------------------------------------------------
(* Claims on the summary table, checked under SpecSeason *)

\* the player of the summary
Subject == player_df[1].personId

\* the rows of the player in the player table
SubjectRows == Filter(pbs, LAMBDA r : r.personId = Subject)

\* the row of the league log of the team the player had in the game of the
\* player row r
LogRowOf(r) ==
    league_csv[CHOOSE k \in 1..Len(league_csv) :
                  /\ league_csv[k].GAME_ID = r.game_id
                  /\ league_csv[k].TEAM_ABBREVIATION = r.teamTricode]

\* the row of the summary frame of the game of the player row r
FrameRowOf(r) ==
    player_df[CHOOSE k \in 1..Len(player_df) :
                 player_df[k].game_id = r.game_id]

\* the player row r is one of the player's 10 latest games
InLast10(r) ==
    Cardinality({k \in 1..Len(SubjectRows) :
                    SubjectRows[k].game_date > r.game_date}) < 10

\* the game of the player row r belongs to the cohort label
InCohort(r, label) ==
    CASE label = "Season (All Games)" -> TRUE
      [] label = "Last 10 Games" -> InLast10(r)
      [] label = "Wins" -> LogRowOf(r).WL = "W"
      [] label = "Losses" -> LogRowOf(r).WL = "L"
      [] label = "Home" -> ~LogRowOf(r).MATCHUP.at
      [] label = "Away" -> LogRowOf(r).MATCHUP.at
      [] label = "Top 10 Defense" ->
             /\ ~IsNaN(FrameRowOf(r).def_rank)
             /\ ~FLess(Num(10), FrameRowOf(r).def_rank)
      [] label = "Middle 10 Defense" ->
             /\ FLess(Num(10), FrameRowOf(r).def_rank)
             /\ ~FLess(Num(20), FrameRowOf(r).def_rank)
      [] label = "Bottom 10 Defense" ->
             FLess(Num(20), FrameRowOf(r).def_rank)

\* the player's games of the cohort label, as row numbers of SubjectRows
Cohort(label) ==
    {k \in 1..Len(SubjectRows) : InCohort(SubjectRows[k], label)}

\* the games of the cohort label that the summary frame flags as hits
CohortHits(label) ==
    {k \in Cohort(label) : FrameRowOf(SubjectRows[k]).hit}

\* rate has one decimal place and is a nearest such value to
\* 100 * hits / games
IsRoundedRate(rate, hits, games) ==
    /\ ~IsNaN(rate)
    /\ 10 % rate[2] = 0
    /\ 2 * (10 * rate[1] * games - 1000 * hits * rate[2])
           <= games * rate[2]
    /\ 2 * (1000 * hits * rate[2] - 10 * rate[1] * games)
           <= games * rate[2]

\* C12: every row of the summary table has the number of the player's
\* games of its cohort as Games, a null Hit Rate (%) when that is 0, and
\* otherwise 100 * (hit games of the cohort) / Games to one decimal place.
C12_HitRateRows ==
    "summary" \in loaded =>
        \A k \in 1..Len(summary_table) :
            /\ summary_table[k].Games
                   = Cardinality(Cohort(summary_table[k].Category))
            /\ summary_table[k].Games = 0 =>
                   IsNaN(summary_table[k].HitRate)
            /\ summary_table[k].Games > 0 =>
                   IsRoundedRate(summary_table[k].HitRate,
                       Cardinality(CohortHits(summary_table[k].Category)),
                       summary_table[k].Games)

\* a season of more than 10 games, of which the last 10 make a cohort,
\* with a rate that needed rounding (6 hits in 11 games, 54.5) and an empty
\* cohort
C12_Witness ==
    /\ "summary" \in loaded
    /\ \E i, j, k \in 1..Len(summary_table) :
          /\ summary_table[i].Category = "Season (All Games)"
          /\ summary_table[i].Games = MaxSeasonGames
          /\ summary_table[i].HitRate[2] > 1
          /\ summary_table[j].Category = "Last 10 Games"
          /\ summary_table[j].Games = 10
          /\ summary_table[k].Games = 0
          /\ IsNaN(summary_table[k].HitRate)

\* every game of the player has a win or a loss as result in the league log
AllResultsDefinitive ==
    \A k \in 1..Len(SubjectRows) :
        LogRowOf(SubjectRows[k]).WL = "W" \/ LogRowOf(SubjectRows[k]).WL = "L"

\* C13: in the summary of a player whose games all have a definitive
\* result, the Home and Away rows together, and the Wins and Losses rows
\* together, have the Games of the Season (All Games) row.
C13_BucketPartition ==
    ("summary" \in loaded /\ AllResultsDefinitive) =>
        /\ GamesIn("Home") + GamesIn("Away") = GamesIn("Season (All Games)")
        /\ GamesIn("Wins") + GamesIn("Losses") = GamesIn("Season (All Games)")

\* a summary of a player with a home game, an away game, a win and a loss
C13_Witness ==
    /\ "summary" \in loaded
    /\ AllResultsDefinitive
    /\ GamesIn("Home") > 0 /\ GamesIn("Away") > 0
    /\ GamesIn("Wins") > 0 /\ GamesIn("Losses") > 0

-----------------------------------------------------------------------------
\* the call made again is for the player of the frame already held
SameSubjectAgain(df, df2) ==
    /\ df # <<>>
    /\ df2 # <<>>
    /\ df2[1].personId = df[1].personId

-----------------------------------------------------------------------------
GameDates == {tbs[k].GAME_DATE : k \in 1..Len(tbs)}

LogTeams == {tbs[k].TEAM_ABBREVIATION : k \in 1..Len(tbs)}

\* the rows of daily_ranks of a team on a day
RankRowsOf(team, d) ==
    Filter(daily_ranks,
           LAMBDA r : r.TEAM_ABBREVIATION = team /\ r.game_date = d)

\* C15 as stated: daily_ranks has one row per (team, calendar day) for every
\* day from the first game date through one day after the last game date.
C15_RowPerTeamPerDay ==
    "ranks" \in loaded =>
        \A d \in SetMin(GameDates)..(SetMax(GameDates) + 1) :
            \A team \in LogTeams : Len(RankRowsOf(team, d)) = 1

\* C15: for every calendar day from the first game date through one day
\* after the last game date, game day or not, daily_ranks has one row for
\* each team with a game before that day and none for the other teams; it
\* has no row of another day, and so none on the first game date.
C15_RowPerPlayedTeamPerDay ==
    "ranks" \in loaded =>
        /\ \A d \in SetMin(GameDates)..(SetMax(GameDates) + 1) :
               \A team \in Teams :
                   Len(RankRowsOf(team, d)) =
                       IF TeamGamesBefore(tbs, team, d) # <<>> THEN 1 ELSE 0
        /\ RankDates \subseteq (SetMin(GameDates) + 1)..(SetMax(GameDates) + 1)

\* C15 witness: a day without games between two game days has its rows, a
\* team first plays after that day, and the day after the last game is there.
C15_Witness ==
    /\ "ranks" \in loaded
    /\ \E d \in RankDates :
           /\ d \notin GameDates
           /\ d < SetMax(GameDates)
           /\ \E team \in LogTeams : RankRowsOf(team, d) = <<>>
    /\ SetMax(GameDates) + 1 \in RankDates

-----------------------------------------------------------------------------
\* C16: the rows of load_process_pbs are in (personId, game_date, game_id)
\* order, so of two games of one player on one date the one with the smaller
\* game_id comes first and enters the trailing averages of the other,
\* whatever their order in the csv.
C16_CanonicalOrder ==
    "pbs" \in loaded =>
        \A i, j \in 1..Len(pbs) :
            (/\ i < j
             /\ pbs[i].personId = pbs[j].personId
             /\ pbs[i].game_date = pbs[j].game_date)
            => pbs[i].game_id < pbs[j].game_id

-----------------------------------------------------------------------------
\* box scores as BoxScoresOf, the player scoring the team's points less off
BoxScoresLess(csv, off) ==
    Table([k \in 1..Len(csv) |->
        [personId |-> csv[k].TEAM_ABBREVIATION,
         teamTricode |-> csv[k].TEAM_ABBREVIATION,
         game_id |-> csv[k].GAME_ID,
         game_date |-> csv[k].GAME_DATE,
         points |-> csv[k].PTS - off]])

\* the tables loaded before build_ranks, the players scoring 10 and 20 or
\* 5 and 15 points: games above, below and on the prop line
InitLine ==
    /\ LeagueCsvInit
    /\ \E off \in {90, 95} : pbs_csv = BoxScoresLess(league_csv, off)
    /\ pbs = load_process_pbs(pbs_csv)
    /\ tbs = <<>>
    /\ daily_ranks = <<>>
    /\ player_df = <<>>
    /\ summary_table = <<>>
    /\ export_join = <<>>
    /\ export_df = <<>>
    /\ loaded = {"pbs"}
    /\ session_state = NewSession
    /\ screen = NoScreen
    /\ scraper = NoScrape

SpecLine == InitLine /\ [][NextRank]_vars

\* C17: a game is a hit exactly when points >= prop line, in the frame of
\* the summary (column hit) and in the export (column hit_prop_line) alike,
\* a game with points equal to the line included.
C17_HitMeetsOrExceeds ==
    /\ "summary" \in loaded =>
           \E line \in PropLines :
               \A i \in 1..Len(player_df) :
                   player_df[i].hit = (player_df[i].points >= line)
    /\ "export" \in loaded =>
           \A i \in 1..Len(export_df) :
               export_df[i].hit_prop_line
                   = (export_df[i].points >= export_df[i].prop_line)

-----------------------------------------------------------------------------
\* a league game log with its row k in the file twice
DupCsv(csv, k) == SubSeq(csv, 1, k) \o <<csv[k]>> \o SubSeq(csv, k + 1, Len(csv))

\* the tables loaded before build_ranks, the league game log holding one of
\* its rows twice; the box scores have every game once
InitDup ==
    /\ \E n \in 1..MaxLogGames :
           \E f \in [1..n -> Teams \X Teams \X Days \X BOOLEAN] :
               /\ \A g \in 1..n : f[g][1] # f[g][2]
               /\ \A g \in 1..(n - 1) : f[g][3] < f[g + 1][3]
               /\ \E k \in 1..(2 * n) :
                      /\ league_csv = DupCsv(LeagueCsv(n, f), k)
                      /\ pbs_csv = BoxScoresOf(LeagueCsv(n, f))
    /\ pbs = load_process_pbs(pbs_csv)
    /\ tbs = <<>>
    /\ daily_ranks = <<>>
    /\ player_df = <<>>
    /\ summary_table = <<>>
    /\ export_join = <<>>
    /\ export_df = <<>>
    /\ loaded = {"pbs"}
    /\ session_state = NewSession
    /\ screen = NoScreen
    /\ scraper = NoScrape

SpecDup == InitDup /\ [][NextRank]_vars

\* a (game, team) with two rows in the league game log
HasDuplicateRows(csv) ==
    \E i, j \in 1..Len(csv) :
        /\ i # j
        /\ csv[i].GAME_ID = csv[j].GAME_ID
        /\ csv[i].TEAM_ABBREVIATION = csv[j].TEAM_ABBREVIATION

\* C18: when the league game log has two rows for one (game_id, team), the
\* pipeline stops with an error: load_process_tbs returns no table, and
\* neither player_hit_rate_summary nor export_player_scoring returns one in
\* which a game is duplicated or one of the matches is picked.
C18_DuplicateIsFatal ==
    HasDuplicateRows(league_csv) =>
        /\ "tbs" \notin loaded
        /\ "summary" \notin loaded
        /\ "export" \notin loaded

-----------------------------------------------------------------------------
\* a call of the summary for a player that has rows raises
SummaryRaisesWithRows ==
    \E player_id \in Subjects :
        /\ PlayerRows(player_id, pbs) # <<>>
        /\ summary_raises(player_id, pbs, tbs)

\* a call of the export for a player that has rows raises
ExportRaisesWithRows ==
    \E player_id \in Subjects :
        /\ PlayerRows(player_id, pbs) # <<>>
        /\ export_raises(player_id, pbs, tbs)

\* C19: player_hit_rate_summary and export_player_scoring called for a
\* player id without rows in the player table hand the caller a 'no data'
\* result: no exception leaves the call, so an exception that did leave one
\* was raised for a player with rows.
C19_NoDataIsAResult ==
    /\ "summary_raised" \in loaded => SummaryRaisesWithRows
    /\ "export_raised" \in loaded => ExportRaisesWithRows

-----------------------------------------------------------------------------
(* Plot by opponent defensive bucket: src/plots/player.py lines 275-415 *)

Uppers == <<"A", "B", "C", "D", "E", "F", "G", "H", "I", "J", "K", "L", "M",
            "N", "O", "P", "Q", "R", "S", "T", "U", "V", "W", "X", "Y", "Z">>

Lowers == <<"a", "b", "c", "d", "e", "f", "g", "h", "i", "j", "k", "l", "m",
            "n", "o", "p", "q", "r", "s", "t", "u", "v", "w", "x", "y", "z">>

\* str.lower() of a string held as the sequence of its characters
Lower(chars) ==
    Table([k \in 1..Len(chars) |->
        IF \E i \in 1..26 : Uppers[i] = chars[k]
        THEN Lowers[CHOOSE i \in 1..26 : Uppers[i] = chars[k]]
        ELSE chars[k]])

\* str.strip(): without the blanks at either end
Strip(chars) ==
    LET inked == {k \in 1..Len(chars) : chars[k] # " "}
    IN  IF inked = {} THEN <<>>
        ELSE SubSeq(chars, SetMin(inked), SetMax(inked))

TopSpellings ==
    {<<"t", "o", "p", "1", "0">>,
     <<"t", "o", "p", " ", "1", "0">>,
     <<"t", "o", "p", " ", "1", "0", " ", "d", "e", "f", "e", "n", "s", "e">>}

MiddleSpellings ==
    {<<"m", "i", "d", "d", "l", "e", "1", "0">>,
     <<"m", "i", "d", "d", "l", "e", " ", "1", "0">>,
     <<"m", "i", "d", "d", "l", "e", " ", "1", "0", " ",
       "d", "e", "f", "e", "n", "s", "e">>}

BottomSpellings ==
    {<<"b", "o", "t", "t", "o", "m", "1", "0">>,
     <<"b", "o", "t", "t", "o", "m", " ", "1", "0">>,
     <<"b", "o", "t", "t", "o", "m", " ", "1", "0", " ",
       "d", "e", "f", "e", "n", "s", "e">>}

\* an opp_def_bucket argument: a str with its characters, a tuple or list
\* with its items (numbers or not), or an object of another type
StrArg(name, chars) ==
    [name |-> name, kind |-> "str", chars |-> chars, items |-> <<>>,
     numeric |-> FALSE]

SeqArg(name, items, numeric) ==
    [name |-> name, kind |-> "seq", chars |-> <<>>, items |-> items,
     numeric |-> numeric]

BucketArgs ==
    {StrArg("'top10'", <<"t", "o", "p", "1", "0">>),
     StrArg("' Top 10 Defense '",
            <<" ", "T", "o", "p", " ", "1", "0", " ",
              "D", "e", "f", "e", "n", "s", "e", " ">>),
     StrArg("'MIDDLE10'", <<"M", "I", "D", "D", "L", "E", "1", "0">>),
     StrArg("'bottom 10'", <<"b", "o", "t", "t", "o", "m", " ", "1", "0">>),
     StrArg("'best'", <<"b", "e", "s", "t">>),
     StrArg("'top-10'", <<"t", "o", "p", "-", "1", "0">>),
     SeqArg("(1, 2)", <<1, 2>>, TRUE),
     SeqArg("(2, 1)", <<2, 1>>, TRUE),
     SeqArg("(1, 2, 3)", <<1, 2, 3>>, TRUE),
     SeqArg("('x', 'y')", <<0, 0>>, FALSE),
     [name |-> "None", kind |-> "other", chars |-> <<>>, items |-> <<>>,
      numeric |-> FALSE]}

\* steps 1 to 3 (lines 307-378): the player's games with the opponent and
\* its def_rank as of the game date, the same statements as the export's
\* lines 29-103
PlotJoin(player_id, p, t, ranks) == ExportJoin(player_id, p, t, ranks)

\* the rows of the bucket that have a rank (line 408)
BucketRows(df, InBucket(_)) ==
    Filter(df, LAMBDA r : InBucket(r.opp_def_rank) /\ ~IsNaN(r.opp_def_rank))

\* steps 4 on of a parsed bucket (lines 408-411 and the drawing)
plot_filtered(rows) ==
    IF Len(rows) = 0 THEN "plot: ValueError: No games found"
    ELSE "plot: figure"

\* step 4 (lines 384-411): parsing opp_def_bucket and what follows
plot_bucket(df, bucket) ==
    IF bucket.kind = "str"
    THEN IF Strip(Lower(bucket.chars)) \in TopSpellings
         THEN plot_filtered(BucketRows(df,
                  LAMBDA rank : ~IsNaN(rank) /\ ~FLess(Num(10), rank)))
         ELSE IF Strip(Lower(bucket.chars)) \in MiddleSpellings
         THEN plot_filtered(BucketRows(df,
                  LAMBDA rank : /\ ~IsNaN(rank)
                                /\ FLess(Num(10), rank)
                                /\ ~FLess(Num(20), rank)))
         ELSE IF Strip(Lower(bucket.chars)) \in BottomSpellings
         THEN plot_filtered(BucketRows(df,
                  LAMBDA rank : ~IsNaN(rank) /\ FLess(Num(20), rank)))
         ELSE "plot: ValueError: Invalid bucket string"
    ELSE IF bucket.kind = "seq" /\ Len(bucket.items) = 2
    THEN IF ~bucket.numeric
         THEN "plot: TypeError: Invalid comparison"
         ELSE plot_filtered(BucketRows(df,
                  LAMBDA rank : /\ ~IsNaN(rank)
                                /\ ~FLess(rank, Num(bucket.items[1]))
                                /\ ~FLess(Num(bucket.items[2]), rank)))
    ELSE "plot: TypeError: opp_def_bucket must be a string or a tuple"

\* the function: what the call ends with, the figure or the exception
plot_player_scoring_by_def_bucket(player_id, p, t, ranks, bucket) ==
    IF \A k \in 1..Len(p) : p[k].personId # player_id
    THEN "plot: KeyError: 0"
    ELSE IF export_raises(player_id, p, t)
    THEN "plot: MergeError"
    ELSE plot_bucket(PlotJoin(player_id, p, t, ranks), bucket)

\* one call of plot_player_scoring_by_def_bucket; loaded keeps the argument
\* and the end of the call
PlotPlayerScoringByDefBucket ==
    /\ "pbs" \in loaded /\ "tbs" \in loaded /\ "ranks" \in loaded
    /\ "plot" \notin loaded
    /\ \E player_id \in Subjects, bucket \in BucketArgs :
          loaded' = loaded \cup
              {"plot", bucket.name,
               plot_player_scoring_by_def_bucket(player_id, pbs, tbs,
                                                 daily_ranks, bucket)}
    /\ UNCHANGED <<session_state, screen, scraper>>
    /\ UNCHANGED <<pbs_csv, league_csv, pbs, tbs, daily_ranks, player_df,
                   summary_table, export_join, export_df>>

NextPlot ==
    \/ LoadProcessTbs
    \/ BuildRanks
    \/ PlotPlayerScoringByDefBucket

SpecPlot == InitRank /\ [][NextPlot]_vars

\* the argument of the call made
PlotBucket == CHOOSE b \in BucketArgs : b.name \in loaded

\* a recognized label in any case, or a range of two numbers min <= max
IsValidBucket(b) ==
    \/ /\ b.kind = "str"
       /\ Strip(Lower(b.chars))
              \in TopSpellings \cup MiddleSpellings \cup BottomSpellings
    \/ /\ b.kind = "seq"
       /\ Len(b.items) = 2
       /\ b.numeric
       /\ b.items[1] <= b.items[2]

\* C20: a call of plot_player_scoring_by_def_bucket with an opp_def_bucket
\* that is neither a recognized label nor a valid (min_rank, max_rank)
\* range ends with the error that names the bad argument, whatever the
\* other arguments: nothing is computed before it and no figure is made.
C20_InvalidBucketRejectedFirst ==
    ("plot" \in loaded /\ ~IsValidBucket(PlotBucket)) =>
        \/ "plot: ValueError: Invalid bucket string" \in loaded
        \/ "plot: TypeError: opp_def_bucket must be a string or a tuple"
               \in loaded

-----------------------------------------------------------------------------
\* the minutes cells of the files: well-formed ones, a missing one, an empty
\* one, and strings that are no "MM:SS"
MinutesCells ==
    {MinutesStr(<<"3", "4", ":", "3", "0">>),
     MinutesStr(<<"5", ":", "0", "7">>),
     MinutesStr(<<"0", ":", "0", "0">>),
     NoMinutes,
     MinutesStr(<<>>),
     MinutesStr(<<"D", "N", "P">>),
     MinutesStr(<<"1", "2">>),
     MinutesStr(<<"1", "2", ":", "x", "x">>),
     MinutesStr(<<"1", ":", "2", ":", "3">>),
     MinutesStr(<<":", "3", "0">>)}

\* player box scores of one player with a minutes column, one game a day
MinutesCsv(n, f) ==
    Table([k \in 1..n |->
        [personId |-> 1, game_date |-> k, game_id |-> k, points |-> 10,
         minutes |-> f[k]]])

InitMinutes ==
    /\ \E n \in 1..MaxRows : \E f \in [1..n -> MinutesCells] :
           pbs_csv = MinutesCsv(n, f)
    /\ league_csv = <<>>
    /\ pbs = <<>>
    /\ tbs = <<>>
    /\ daily_ranks = <<>>
    /\ player_df = <<>>
    /\ summary_table = <<>>
    /\ export_join = <<>>
    /\ export_df = <<>>
    /\ loaded = {}
    /\ session_state = NewSession
    /\ screen = NoScreen
    /\ scraper = NoScrape

NextMinutes ==
    \/ LoadProcessPbs
    \/ LoadProcessPbsFromDb

SpecMinutes == InitMinutes /\ [][NextMinutes]_vars

\* digits, a colon, digits
IsWellFormedMinutes(cell) ==
    /\ ~cell.isna
    /\ \E c \in 1..Len(cell.chars) :
           /\ cell.chars[c] = ":"
           /\ c > 1
           /\ c < Len(cell.chars)
           /\ \A k \in 1..Len(cell.chars) :
                  k # c => IsDigit(cell.chars[k])

\* MM + SS / 60 of a well-formed cell
MinutesValue(cell) ==
    LET c == CHOOSE k \in 1..Len(cell.chars) : cell.chars[k] = ":"
    IN  Quot(60 * DigitsVal(SubSeq(cell.chars, 1, c - 1))
                 + DigitsVal(SubSeq(cell.chars, c + 1, Len(cell.chars))),
             60)

\* C21: either loader ends with a table, whatever the minutes cells, in
\* which a well-formed "MM:SS" is MM + SS/60 and a missing, empty or
\* unparseable cell is the absent value; no cell aborts the load.
C21_MinutesParsing ==
    /\ "pbs_raised" \notin loaded
    /\ "pbs" \in loaded =>
           \A k \in 1..Len(pbs) :
               "minutes" \in DOMAIN pbs[k] =>
                   pbs[k].minutes =
                       IF IsWellFormedMinutes(pbs_csv[pbs[k].game_id].minutes)
                       THEN MinutesValue(pbs_csv[pbs[k].game_id].minutes)
                       ELSE NaN

-----------------------------------------------------------------------------
(* Teammate absence: src/tables.py lines 95-153 and 205-215 *)

Upper(c) ==
    IF \E i \in 1..26 : Lowers[i] = c
    THEN Uppers[CHOOSE i \in 1..26 : Lowers[i] = c]
    ELSE c

\* str.title() of one word: the first letter upper, the others lower
Title(chars) ==
    IF chars = <<>> THEN <<>>
    ELSE <<Upper(chars[1])>> \o Lower(Tail(chars))

\* the str of a sequence of characters
RECURSIVE Join(_)
Join(chars) == IF chars = <<>> THEN "" ELSE chars[1] \o Join(Tail(chars))

\* the game ids among game_ids in which the teammate has a row (lines
\* 133-139)
TeammateGames(p, teammate_id, game_ids) ==
    {p[k].game_id : k \in {j \in 1..Len(p) :
                              /\ p[j].personId = teammate_id
                              /\ p[j].game_id \in game_ids}}

\* teammate_{i}_out of one row: the game is not among the teammate's
\* (line 140)
TeammateOutFlags(r, p, teammates, game_ids) ==
    [i \in 1..Len(teammates) |->
        r.game_id \notin TeammateGames(p, teammates[i], game_ids)]

\* the frame with the teammate_{i}_out columns, held as one sequence
TeammateOut(df, p, teammates) ==
    Column(df, LAMBDA r :
        r @@ [teammate_out |->
                 TeammateOutFlags(r, p, teammates,
                     {df[k].game_id : k \in 1..Len(df)})])

\* name_row of a teammate (lines 142-148): the first of his rows
TeammateName(p, teammate_id) ==
    LET k == CHOOSE a \in 1..Len(p) :
                 /\ p[a].personId = teammate_id
                 /\ \A b \in 1..(a - 1) : p[b].personId # teammate_id
    IN  Join(Title(Lower(p[k].firstName))) \o " "
            \o Join(Title(Lower(p[k].familyName)))

TeammateNames(p, teammates) ==
    [i \in 1..Len(teammates) |-> TeammateName(p, teammates[i])]

\* .iloc[0] of the name rows of a teammate without rows
teammates_raise(p, teammates) ==
    \E i \in 1..Len(teammates) :
        \A k \in 1..Len(p) : p[k].personId # teammates[i]

\* the mask taking the games in which any of the teammates is out
CombinedMaskAny(r, n) == \E i \in 1..n : r.teammate_out[i]

\* combined_mask (lines 207-209): every teammate is out
CombinedMask(r, n) == \A i \in 1..n : r.teammate_out[i]

\* " + ".join(teammate_names)
RECURSIVE JoinPlus(_)
JoinPlus(names) ==
    IF Len(names) = 1 THEN names[1]
    ELSE names[1] \o " + " \o JoinPlus(Tail(names))

\* the teammate rows of the table (lines 201-213)
TeammateRows(df, names) ==
    Table([i \in 1..Len(names) |->
        hit_row(Filter(df, LAMBDA r : r.teammate_out[i]),
                names[i] \o " OUT")])
    \o (IF Len(names) >= 2
        THEN <<hit_row(Filter(df, LAMBDA r : CombinedMask(r, Len(names))),
                       JoinPlus(names) \o " OUT")>>
        ELSE <<>>)

\* the rows of the summary table with the teammates tracked
SummaryRowsTeammates(df, names) ==
    SubSeq(SummaryRows(df), 1, 6) \o TeammateRows(df, names)
        \o SubSeq(SummaryRows(df), 7, 9)

\* the lists given as teammates, personIds
TeammateLists ==
    {[name |-> "teammates=[]", ids |-> <<>>],
     [name |-> "teammates=[11]", ids |-> <<11>>],
     [name |-> "teammates=[12]", ids |-> <<12>>],
     [name |-> "teammates=[11, 12]", ids |-> <<11, 12>>],
     [name |-> "teammates=[12, 11]", ids |-> <<12, 11>>]}

\* player_hit_rate_summary(player_id, prop_line, pbs, tbs, daily_ranks,
\* teammates); loaded keeps the list given
PlayerHitRateSummaryTeammates ==
    /\ "pbs" \in loaded /\ "tbs" \in loaded /\ "ranks" \in loaded
    /\ "summary" \notin loaded /\ "summary_raised" \notin loaded
    /\ \E player_id \in Subjects, prop_line \in PropLines,
          teammates \in TeammateLists :
          IF \/ summary_raises(player_id, pbs, tbs)
             \/ teammates_raise(pbs, teammates.ids)
          THEN /\ loaded' = loaded \cup {"summary_raised", teammates.name}
               /\ UNCHANGED <<player_df, summary_table>>
          ELSE /\ player_df' =
                      TeammateOut(SummaryFrame(player_id, prop_line, pbs,
                                               tbs, daily_ranks),
                                  pbs, teammates.ids)
               /\ summary_table' =
                      SummaryRowsTeammates(player_df',
                          TeammateNames(pbs, teammates.ids))
               /\ loaded' = loaded \cup {"summary", teammates.name}
    /\ UNCHANGED <<session_state, screen, scraper>>
    /\ UNCHANGED <<pbs_csv, league_csv, pbs, tbs, daily_ranks, export_join,
                   export_df>>

\* the names in the box scores, as the file spells them
FirstNames == [pid \in {1, 2, 11, 12} |->
    CASE pid = 1 -> <<"P", "a", "t">>
      [] pid = 2 -> <<"S", "A", "M">>
      [] pid = 11 -> <<"L", "e", "B", "o">>
      [] pid = 12 -> <<"a", "l">>]

FamilyNames == [pid \in {1, 2, 11, 12} |->
    CASE pid = 1 -> <<"O", "n", "e">>
      [] pid = 2 -> <<"T", "w", "o">>
      [] pid = 11 -> <<"M", "c", "C", "o", "y">>
      [] pid = 12 -> <<"R", "a", "y">>]

RosterRow(pid, team, g, points, minutes) ==
    [personId |-> pid, teamTricode |-> team, game_id |-> g, game_date |-> g,
     points |-> points, minutes |-> minutes,
     firstName |-> FirstNames[pid], familyName |-> FamilyNames[pid]]

\* what a teammate did in a game: played, sat out with a row of his own
\* (no minutes), or has no row
TeammateStatus == {"played", "dnp", "none"}

TeammateRow(pid, g, status) ==
    IF status = "none" THEN <<>>
    ELSE <<RosterRow(pid, 1, g, IF status = "played" THEN 8 ELSE 0,
                     IF status = "played"
                     THEN MinutesStr(<<"3", "0", ":", "0", "0">>)
                     ELSE NoMinutes)>>

\* the box scores of the games of csv, team 1 at team 2 on day g: players 1
\* and 2 as in BoxScoresOf, teammates 11 and 12 of player 1 as st has them
RECURSIVE RosterCsv(_, _, _)
RosterCsv(csv, st, g) ==
    IF 2 * g > Len(csv) THEN <<>>
    ELSE <<RosterRow(1, 1, g, csv[2 * g - 1].PTS - 90,
                     MinutesStr(<<"3", "4", ":", "3", "0">>)),
           RosterRow(2, 2, g, csv[2 * g].PTS - 90,
                     MinutesStr(<<"3", "6", ":", "0", "0">>))>>
         \o TeammateRow(11, g, st[g][1]) \o TeammateRow(12, g, st[g][2])
         \o RosterCsv(csv, st, g + 1)

InitTeammates ==
    /\ \E n \in 1..MaxLogGames :
           \E wins \in [1..n -> BOOLEAN],
              st \in [1..n -> TeammateStatus \X TeammateStatus] :
               /\ league_csv =
                      LeagueCsv(n, [g \in 1..n |-> <<1, 2, g, wins[g]>>])
               /\ pbs_csv = RosterCsv(league_csv, st, 1)
    /\ pbs = load_process_pbs(pbs_csv)
    /\ tbs = <<>>
    /\ daily_ranks = <<>>
    /\ player_df = <<>>
    /\ summary_table = <<>>
    /\ export_join = <<>>
    /\ export_df = <<>>
    /\ loaded = {"pbs"}
    /\ session_state = NewSession
    /\ screen = NoScreen
    /\ scraper = NoScrape

NextTeammates ==
    \/ LoadProcessTbs
    \/ BuildRanks
    \/ PlayerHitRateSummaryTeammates

SpecTeammates == InitTeammates /\ [][NextTeammates]_vars

\* the list given to the call made
Tracked == (CHOOSE l \in TeammateLists : l.name \in loaded).ids

\* the teammate has a row with minutes played in game g
PlayedIn(teammate_id, g) ==
    \E k \in 1..Len(pbs) :
        /\ pbs[k].personId = teammate_id
        /\ pbs[k].game_id = g
        /\ ~IsNaN(pbs[k].minutes)

\* C22: in the frame of the summary, the absence flag of a tracked teammate
\* for a game of the player is true exactly when the teammate has no row
\* with minutes played in that game; a row without minutes (did not play)
\* leaves him absent.
C22_AbsentUnlessPlayed ==
    "summary" \in loaded =>
        \A k \in 1..Len(player_df) : \A i \in 1..Len(Tracked) :
            player_df[k].teammate_out[i]
                = ~PlayedIn(Tracked[i], player_df[k].game_id)

-----------------------------------------------------------------------------
\* the game ids of the frame rows in which tracked teammate i is out
OutCohort(i) ==
    {player_df[k].game_id :
        k \in {j \in 1..Len(player_df) : player_df[j].teammate_out[i]}}

\* the games with every tracked teammate out
AllOutCohort ==
    {g \in {player_df[k].game_id : k \in 1..Len(player_df)} :
        \A i \in 1..Len(Tracked) : g \in OutCohort(i)}

\* C23: the summary table has the single-teammate rows after its sixth
\* row, and right after them one combined row exactly when two or more
\* teammates are tracked; the combined row counts the games in which every
\* tracked teammate is out, the intersection of the single cohorts, and
\* gives their hit rate.  With no or one teammate the table has no such row.
C23_CombinedCohort ==
    "summary" \in loaded =>
        LET n == Len(Tracked)
            hits == {g \in AllOutCohort :
                        \E k \in 1..Len(player_df) :
                            player_df[k].game_id = g /\ player_df[k].hit}
        IN  /\ Len(summary_table) = 9 + n + (IF n >= 2 THEN 1 ELSE 0)
            /\ \A i \in 1..n :
                   summary_table[6 + i].Games = Cardinality(OutCohort(i))
            /\ summary_table[Len(summary_table) - 2].Category
                   = "Top 10 Defense"
            /\ n >= 2 =>
                   /\ summary_table[7 + n].Games = Cardinality(AllOutCohort)
                   /\ IF AllOutCohort = {}
                      THEN IsNaN(summary_table[7 + n].HitRate)
                      ELSE IsRoundedRate(summary_table[7 + n].HitRate,
                                         Cardinality(hits),
                                         Cardinality(AllOutCohort))

\* C23 witness: two teammates tracked over two games, each out in one game
\* only, so that the combined row is there with no game; and a table with
\* a combined row of one game out of two
C23_Witness ==
    /\ "summary" \in loaded
    /\ Len(Tracked) = 2
    /\ Len(player_df) = 2
    /\ Cardinality(OutCohort(1)) = 1
    /\ Cardinality(OutCohort(2)) = 1
    /\ Len(summary_table) = 12
    /\ summary_table[9].Games = 0

-----------------------------------------------------------------------------
\* a league of 22 teams: on day 1 team 2k-1 plays at team 2k, all the away
\* teams or all the home teams winning; then team 1 plays at the opponents
\* opp[1] on day 2 and opp[2] on day 3, winning the first of the two
LeagueTeams == 22

TierCsv(away_wins, opp) ==
    LeagueCsv(LeagueTeams \div 2 + 2,
        [g \in 1..(LeagueTeams \div 2 + 2) |->
            IF g <= LeagueTeams \div 2
            THEN <<2 * g - 1, 2 * g, 1, away_wins>>
            ELSE <<1, opp[g - LeagueTeams \div 2], g - LeagueTeams \div 2 + 1,
                   g = LeagueTeams \div 2 + 1>>])

InitTiers ==
    /\ \E away_wins \in BOOLEAN :
           \E opp \in [1..2 -> 2..LeagueTeams] :
               league_csv = TierCsv(away_wins, opp)
    /\ pbs_csv = BoxScoresOf(league_csv)
    /\ pbs = load_process_pbs(pbs_csv)
    /\ tbs = <<>>
    /\ daily_ranks = <<>>
    /\ player_df = <<>>
    /\ summary_table = <<>>
    /\ export_join = <<>>
    /\ export_df = <<>>
    /\ loaded = {"pbs"}
    /\ session_state = NewSession
    /\ screen = NoScreen
    /\ scraper = NoScrape

SpecTiers == InitTiers /\ [][NextRank]_vars

\* the def_rank that daily_ranks has for the team on the date
RankOn(team, d) ==
    daily_ranks[CHOOSE k \in 1..Len(daily_ranks) :
                    /\ daily_ranks[k].TEAM_ABBREVIATION = team
                    /\ daily_ranks[k].game_date = d].def_rank

\* the latest def_rank that daily_ranks has for the team
LatestRank(team) == RankOn(team, SetMax(RankDates))

\* the tier of the whole rank r
TierOf(r) ==
    CASE r >= 1 /\ r <= 10 -> "Top 10 Defense"
      [] r >= 11 /\ r <= 20 -> "Middle 10 Defense"
      [] r >= 21 -> "Bottom 10 Defense"

\* C24: a game of the summary frame with an attached rank has the tier of
\* the whole number r that daily_ranks holds for its opponent on the game's
\* own date: Top 10 for 1..10, Middle 10 for 11..20, Bottom 10 for 21 and
\* more; and the Games of the three tier rows are the numbers of the games
\* of each tier, together the number of games with a rank.
C24_DefenseTiers ==
    "summary" \in loaded =>
        /\ \A k \in 1..Len(RankedGames) :
               LET r == RankOn(RankedGames[k].OPP_TEAM,
                               RankedGames[k].game_date_x)
               IN  /\ r[2] = 1
                   /\ r[1] >= 1
                   /\ RankedGames[k].def_rank = r
                   /\ RankedGames[k].def_bucket = TierOf(r[1])
        /\ \A tier \in {"Top 10 Defense", "Middle 10 Defense",
                        "Bottom 10 Defense"} :
               GamesIn(tier) =
                   Cardinality({k \in 1..Len(RankedGames) :
                       RankedGames[k].def_bucket = tier})
        /\ GamesIn("Top 10 Defense") + GamesIn("Middle 10 Defense")
               + GamesIn("Bottom 10 Defense") = Len(RankedGames)

\* C24 witness: games against the teams ranked 10, 11, 20 and 21 on the
\* game's date are in summaries, and a game whose tier is not the tier of
\* the opponent's latest rank
C24_Witness ==
    /\ "summary" \in loaded
    /\ \E k \in 1..Len(RankedGames) :
           RankedGames[k].def_rank \in {Num(10), Num(20)}
    /\ \E k \in 1..Len(RankedGames) :
           RankedGames[k].def_rank \in {Num(11), Num(21)}
    /\ \E k \in 1..Len(RankedGames) :
           /\ ~IsNaN(LatestRank(RankedGames[k].OPP_TEAM))
           /\ TierOf(LatestRank(RankedGames[k].OPP_TEAM)[1])
                  # RankedGames[k].def_bucket

-----------------------------------------------------------------------------
\* the tables loaded before build_ranks, for a league game log with every
\* row once or with one row twice
InitAnyLog == InitRank \/ InitDup

SpecAnyLog == InitAnyLog /\ [][NextRank]_vars

\* C25: whatever the league game log, one of its rows twice included,
\* daily_ranks has no two rows with the same team and the same date.
C25_UniqueRankFacts ==
    "ranks" \in loaded =>
        \A i, j \in 1..Len(daily_ranks) :
            (/\ daily_ranks[i].TEAM_ABBREVIATION
                    = daily_ranks[j].TEAM_ABBREVIATION
             /\ daily_ranks[i].game_date = daily_ranks[j].game_date)
            => i = j

\* C25 witness: the ranks of a log that has a (game, team) twice, with rows
\* of that team on two dates
C25_Witness ==
    /\ "ranks" \in loaded
    /\ \E a, b \in 1..Len(league_csv) :
           /\ a # b
           /\ league_csv[a] = league_csv[b]
           /\ \E i, j \in 1..Len(daily_ranks) :
                  /\ daily_ranks[i].TEAM_ABBREVIATION
                         = league_csv[a].TEAM_ABBREVIATION
                  /\ daily_ranks[j].TEAM_ABBREVIATION
                         = league_csv[a].TEAM_ABBREVIATION
                  /\ daily_ranks[i].game_date < daily_ranks[j].game_date

-----------------------------------------------------------------------------
\* C26: when the summary and the export are those of one player, every
\* game has the same opponent defensive rank in the frame of the summary
\* (def_rank) and in the export (opp_def_rank), the opponent having played
\* on the day before the game or not.
C26_AsOfPathsAgree ==
    ("summary" \in loaded /\ "export" \in loaded
        /\ player_df[1].personId = export_join[1].personId) =>
        \A i \in 1..Len(player_df) : \A j \in 1..Len(export_join) :
            player_df[i].game_id = export_join[j].game_id =>
                player_df[i].def_rank = export_join[j].opp_def_rank

-----------------------------------------------------------------------------
\* box scores in which player 1 plays every game of the log, for its away
\* team or its home team as side has it, and player 2 for the other team
TradeBoxScores(csv, side) ==
    Table([k \in 1..Len(csv) |->
        [personId |-> IF (k % 2 = 1) = side[(k + 1) \div 2] THEN 1 ELSE 2,
         teamTricode |-> csv[k].TEAM_ABBREVIATION,
         game_id |-> csv[k].GAME_ID,
         game_date |-> csv[k].GAME_DATE,
         points |-> csv[k].PTS - 90]])

\* the tables loaded before build_ranks, the two players changing teams
\* between games or not
InitTrade ==
    /\ LeagueCsvInit
    /\ \E side \in [1..MaxLogGames -> BOOLEAN] :
           pbs_csv = TradeBoxScores(league_csv, side)
    /\ pbs = load_process_pbs(pbs_csv)
    /\ tbs = <<>>
    /\ daily_ranks = <<>>
    /\ player_df = <<>>
    /\ summary_table = <<>>
    /\ export_join = <<>>
    /\ export_df = <<>>
    /\ loaded = {"pbs"}
    /\ session_state = NewSession
    /\ screen = NoScreen
    /\ scraper = NoScrape

SpecTrade == InitTrade /\ [][NextRank]_vars

\* the row of the league game log for the team of the player row r
TeamRowOf(r) ==
    league_csv[CHOOSE k \in 1..Len(league_csv) :
                   /\ league_csv[k].GAME_ID = r.game_id
                   /\ league_csv[k].TEAM_ABBREVIATION = r.teamTricode]

\* C27: for a player whose rows carry one team code or two, the summary and
\* the export are returned and give every game the result, the side and
\* the opponent of the team the player played it for.
C27_TeamOfEachGame ==
    /\ "summary_raised" \notin loaded
    /\ "export_raised" \notin loaded
    /\ "summary" \in loaded =>
           /\ Len(player_df) = Len(PlayerRows(player_df[1].personId, pbs))
           /\ \A k \in 1..Len(player_df) :
                  /\ player_df[k].WL = TeamRowOf(player_df[k]).WL
                  /\ player_df[k].HOME_AWAY =
                         (IF TeamRowOf(player_df[k]).MATCHUP.at
                          THEN "AWAY" ELSE "HOME")
                  /\ player_df[k].OPP_TEAM
                         = TeamRowOf(player_df[k]).MATCHUP.opp
    /\ "export" \in loaded =>
           \A k \in 1..Len(export_join) :
               export_join[k].OPP_TEAM = TeamRowOf(export_join[k]).MATCHUP.opp

-----------------------------------------------------------------------------
(* The dashboard script: one run per interaction of the user *)

\* get_players_by_team: the players of each team (team 3 has none)
get_players_by_team(team_abbrev) ==
    CASE team_abbrev = 1 -> {1, 2}
      [] team_abbrev = 2 -> {3}
      [] OTHER -> {}

\* prop lines are counted in half points: the step of the number input
PropInputs == {30, 59}
\* value=29.5, the prop line offered when none has been entered
DefaultPropLine == 59

\* a widget the user did not touch in this run
Keep == -2

KeepAll == [team |-> Keep, player |-> Keep, opponent |-> Keep, prop |-> Keep]

\* a change of team since the last run resets the player
track_team(ss) ==
    IF ss.prev_team # ss.selected_team
    THEN [ss EXCEPT !.selected_player_id =
                        IF ss.prev_team # None THEN None ELSE @,
                    !.prev_team = ss.selected_team]
    ELSE ss

\* the "Home" button of the player team
player_team_home_btn(ss) ==
    [ss EXCEPT !.player_team_home_away = "home",
               !.opponent_team_home_away = "away"]

\* the "Away" button of the player team
player_team_away_btn(ss) ==
    [ss EXCEPT !.player_team_home_away = "away",
               !.opponent_team_home_away = "home"]

\* the "Home" button of the opponent that sets its own key only
opponent_team_home_btn_own_key(ss) ==
    [ss EXCEPT !.opponent_team_home_away = "home"]

\* the "Home" button of the opponent
opponent_team_home_btn(ss) ==
    [ss EXCEPT !.opponent_team_home_away = "home",
               !.player_team_home_away = "away"]

\* the "Away" button of the opponent
opponent_team_away_btn(ss) ==
    [ss EXCEPT !.opponent_team_home_away = "away",
               !.player_team_home_away = "home"]

\* the team select box and the tracking of the team after it
team_select(ss, choice) ==
    [ss EXCEPT !.selected_team =
                   IF choice = Keep THEN ss.selected_team ELSE choice,
               !.selected_player_id =
                   IF ss.prev_team #
                          (IF choice = Keep THEN ss.selected_team ELSE choice)
                   THEN None ELSE @,
               !.prev_team =
                   IF choice = Keep THEN ss.selected_team ELSE choice]

\* the player select box: a player who is not of the team is dropped
player_select(ss, choice) ==
    [ss EXCEPT !.selected_player_id =
                   IF choice # Keep THEN choice
                   ELSE IF ss.selected_player_id
                               \in get_players_by_team(ss.selected_team)
                        THEN ss.selected_player_id
                        ELSE None]

\* the opponent select box: every team but the player's
opponent_select(ss, choice) ==
    [ss EXCEPT !.selected_opponent =
                   IF choice # Keep THEN choice
                   ELSE IF ss.selected_opponent \in Teams \ {ss.selected_team}
                        THEN ss.selected_opponent
                        ELSE None]

\* the prop line input
prop_line_input(ss, choice) ==
    [ss EXCEPT !.prop_line =
                   IF choice # Keep THEN choice
                   ELSE IF ss.prop_line = None THEN DefaultPropLine
                        ELSE ss.prop_line]

\* the player select box is drawn
HasPlayers(ss) ==
    /\ ss.selected_team # None
    /\ get_players_by_team(ss.selected_team) # {}

\* the session where the opponent's buttons are decided
before_opponent(s1, w) ==
    IF HasPlayers(team_select(s1, w.team))
    THEN player_select(team_select(s1, w.team), w.player)
    ELSE team_select(s1, w.team)

\* the opponent's Home/Away buttons are drawn in this run
opp_buttons(s1, w) ==
    /\ HasPlayers(before_opponent(s1, w))
    /\ before_opponent(s1, w).selected_player_id # None
    /\ before_opponent(s1, w).selected_opponent # None

\* the opponent select box and what is nested under it
from_opponent(s3, w) ==
    IF opponent_select(s3, w.opponent).selected_opponent = None
    THEN opponent_select(s3, w.opponent)
    ELSE prop_line_input(opponent_select(s3, w.opponent), w.prop)

\* the select boxes of one run, each nested under the one before it
selections(s1, w) ==
    IF /\ HasPlayers(before_opponent(s1, w))
       /\ before_opponent(s1, w).selected_player_id # None
    THEN from_opponent(before_opponent(s1, w), w)
    ELSE before_opponent(s1, w)

\* all selections are made: the matchup is rendered
renders(ss) ==
    /\ HasPlayers(ss)
    /\ ss.selected_player_id # None
    /\ ss.selected_opponent # None
    /\ ss.prop_line # None

\* the home team of the matchup header
header_home_team(ss) ==
    IF ss.player_team_home_away = "home" THEN ss.selected_team
    ELSE IF ss.opponent_team_home_away = "home" THEN ss.selected_opponent
    ELSE ss.selected_team

\* the away team of the matchup header
header_away_team(ss) ==
    IF ss.player_team_home_away = "home" THEN ss.selected_opponent
    ELSE IF ss.opponent_team_home_away = "home" THEN ss.selected_team
    ELSE ss.selected_opponent

\* the side of the player handed to the hit rate summary
player_home_away(ss) ==
    IF header_home_team(ss) = ss.selected_team THEN "HOME" ELSE "AWAY"

\* the parameters player_hit_rate_summary declares
SummaryParameters ==
    {"player_id", "prop_line", "pbs", "tbs", "daily_ranks", "teammates"}

\* the keywords the dashboard calls it with
SummaryKeywords ==
    {"teammates", "matchup_home_away", "matchup_opp_def_bucket"}

\* a keyword that is not a parameter is a TypeError
summary_call_raises == SummaryKeywords \ SummaryParameters # {}

\* the home team of the matchup comparison
comparison_home_team(ss) ==
    IF ss.player_team_home_away = "Home" THEN ss.selected_team
    ELSE ss.selected_opponent

\* the away team of the matchup comparison
comparison_away_team(ss) ==
    IF ss.player_team_home_away = "Home" THEN ss.selected_opponent
    ELSE ss.selected_team

\* the matchup of one run: the header, the summary, then the comparison,
\* which an exception of the summary leaves undrawn
matchup(ss) ==
    [team_buttons |-> FALSE,
     opp_buttons |-> FALSE,
     header_home |-> header_home_team(ss),
     header_away |-> header_away_team(ss),
     summary_side |-> player_home_away(ss),
     comparison_home |->
         IF summary_call_raises THEN None ELSE comparison_home_team(ss),
     comparison_away |->
         IF summary_call_raises THEN None ELSE comparison_away_team(ss),
     error |-> IF summary_call_raises THEN "TypeError" ELSE NoneStr]

\* what one run draws
page(s1, w) ==
    [(IF renders(selections(s1, w)) THEN matchup(selections(s1, w))
      ELSE NoScreen)
     EXCEPT !.team_buttons = s1.selected_team # None,
            !.opp_buttons = opp_buttons(s1, w)]

\* one run of the script in which no button is pressed
Script(ss, w) ==
    /\ session_state' = selections(track_team(ss), w)
    /\ screen' = page(track_team(ss), w)
    /\ scraper' = scraper
    /\ UNCHANGED <<pbs_csv, league_csv, pbs, tbs, daily_ranks, player_df,
                   summary_table, export_join, export_df, loaded>>

SelectTeam ==
    \E team \in Teams \cup {None} :
        Script(session_state, [KeepAll EXCEPT !.team = team])

SelectPlayer ==
    /\ HasPlayers(session_state)
    /\ \E player \in get_players_by_team(session_state.selected_team)
                         \cup {None} :
           Script(session_state, [KeepAll EXCEPT !.player = player])

SelectOpponent ==
    /\ HasPlayers(session_state)
    /\ session_state.selected_player_id # None
    /\ \E opponent \in (Teams \ {session_state.selected_team}) \cup {None} :
           Script(session_state, [KeepAll EXCEPT !.opponent = opponent])

EnterPropLine ==
    /\ HasPlayers(session_state)
    /\ session_state.selected_player_id # None
    /\ session_state.selected_opponent # None
    /\ \E prop \in PropInputs :
           Script(session_state, [KeepAll EXCEPT !.prop = prop])

\* a button of the player team is pressed: its handler runs if the run
\* of the click still draws the button, and st.rerun starts the next run
ClickPlayerTeamHome ==
    /\ screen.team_buttons
    /\ IF track_team(session_state).selected_team # None
       THEN Script(player_team_home_btn(track_team(session_state)), KeepAll)
       ELSE Script(session_state, KeepAll)

ClickPlayerTeamAway ==
    /\ screen.team_buttons
    /\ IF track_team(session_state).selected_team # None
       THEN Script(player_team_away_btn(track_team(session_state)), KeepAll)
       ELSE Script(session_state, KeepAll)

ClickOpponentHome ==
    /\ screen.opp_buttons
    /\ IF opp_buttons(track_team(session_state), KeepAll)
       THEN Script(opponent_team_home_btn(
                       before_opponent(track_team(session_state), KeepAll)),
                   KeepAll)
       ELSE Script(session_state, KeepAll)

ClickOpponentAway ==
    /\ screen.opp_buttons
    /\ IF opp_buttons(track_team(session_state), KeepAll)
       THEN Script(opponent_team_away_btn(
                       before_opponent(track_team(session_state), KeepAll)),
                   KeepAll)
       ELSE Script(session_state, KeepAll)

\* the dashboard after its first run: nothing selected
InitDash ==
    /\ pbs_csv = <<>>
    /\ league_csv = <<>>
    /\ pbs = <<>>
    /\ tbs = <<>>
    /\ daily_ranks = <<>>
    /\ player_df = <<>>
    /\ summary_table = <<>>
    /\ export_join = <<>>
    /\ export_df = <<>>
    /\ loaded = {}
    /\ session_state = NewSession
    /\ screen = NoScreen
    /\ scraper = NoScrape

NextDash ==
    \/ SelectTeam
    \/ SelectPlayer
    \/ SelectOpponent
    \/ EnterPropLine
    \/ ClickPlayerTeamHome
    \/ ClickPlayerTeamAway
    \/ ClickOpponentHome
    \/ ClickOpponentAway

SpecDash == InitDash /\ [][NextDash]_vars

-----------------------------------------------------------------------------
(* C28: the matchup comparison and the matchup header *)

\* C28: whenever a run renders a matchup, the comparison is built and
\* titled for the home and away teams of the header, and the hit rate
\* summary is asked for the side the header gives the player's team
C28_HomeAwayConsistent ==
    screen.header_home # None =>
        /\ screen.comparison_home = screen.header_home
        /\ screen.comparison_away = screen.header_away
        /\ screen.summary_side =
               (IF screen.header_home = session_state.selected_team
                THEN "HOME" ELSE "AWAY")

-----------------------------------------------------------------------------
(* C29: the two home/away keys of the session *)

HomeAwayKeys ==
    <<session_state.player_team_home_away,
      session_state.opponent_team_home_away>>

\* C29: after any sequence of runs the two home/away keys are both unset
\* or hold opposite values
C29_KeysUnsetOrOpposite ==
    HomeAwayKeys \in
        {<<NoneStr, NoneStr>>, <<"home", "away">>, <<"away", "home">>}

\* the opponent was put at home while a matchup is on the page
C29_Witness ==
    /\ HomeAwayKeys = <<"away", "home">>
    /\ screen.opp_buttons
    /\ screen.header_home = session_state.selected_opponent
    /\ session_state.selected_opponent # None

-----------------------------------------------------------------------------
(* The tweet scraper *)

\* the tweets asked for in one call
MaxN == 2

\* the Nitter instances, by their place in the list
NITTER_INSTANCES == <<1, 2, 3, 4>>

\* the timeline of an account as one instance serves it: the request
\* fails (ok is FALSE), or the page holds these timeline items, each with
\* the text of its tweet content ("" for an entry without text)
Pages ==
    {[ok |-> FALSE, items |-> <<>>],
     [ok |-> TRUE, items |-> <<>>],
     [ok |-> TRUE, items |-> <<"">>],
     [ok |-> TRUE, items |-> <<"a">>],
     [ok |-> TRUE, items |-> <<"", "a", "b", "c">>]}

\* the orders random.shuffle can leave the copy of the list in
Shuffles ==
    {order \in [1..Len(NITTER_INSTANCES) -> 1..Len(NITTER_INSTANCES)] :
        \A i, j \in 1..Len(NITTER_INSTANCES) : order[i] = order[j] => i = j}

\* the loop over the items of a page: stop at n tweets, skip empty texts
RECURSIVE collect(_, _, _, _)
collect(items, tweets, n, base) ==
    IF items = <<>> \/ Len(tweets) >= n THEN tweets
    ELSE IF Head(items) = "" THEN collect(Tail(items), tweets, n, base)
    ELSE collect(Tail(items),
                 Append(tweets, [text |-> Head(items), source |-> base]),
                 n, base)

\* the request or the search for items raises: the except clause
\* goes on to the next instance
instance_raises(resp) == ~resp.ok \/ resp.items = <<>>

\* the call: the list is copied and shuffled
ScrapeTopNTweets ==
    /\ scraper.outcome = "idle"
    /\ \E order \in Shuffles :
           scraper' = [scraper EXCEPT !.instances = order,
                                      !.outcome = "running"]
    /\ UNCHANGED <<session_state, screen>>
    /\ UNCHANGED <<pbs_csv, league_csv, pbs, tbs, daily_ranks, player_df,
                   summary_table, export_join, export_df, loaded>>

\* one turn of the loop over the instances
TryInstance ==
    /\ scraper.outcome = "running"
    /\ Len(scraper.tried) < Len(scraper.instances)
    /\ scraper' =
           IF instance_raises(
                  scraper.pages[scraper.instances[Len(scraper.tried) + 1]])
           THEN [scraper EXCEPT
                     !.tried = Append(@, scraper.instances[Len(@) + 1])]
           ELSE [scraper EXCEPT
                     !.tried = Append(@, scraper.instances[Len(@) + 1]),
                     !.outcome = "returned",
                     !.tweets =
                         collect(scraper.pages[
                                     scraper.instances[
                                         Len(scraper.tried) + 1]].items,
                                 <<>>, scraper.n,
                                 scraper.instances[Len(scraper.tried) + 1])]
    /\ UNCHANGED <<session_state, screen>>
    /\ UNCHANGED <<pbs_csv, league_csv, pbs, tbs, daily_ranks, player_df,
                   summary_table, export_join, export_df, loaded>>

\* the loop has run out of instances
RaiseRuntimeError ==
    /\ scraper.outcome = "running"
    /\ Len(scraper.tried) = Len(scraper.instances)
    /\ scraper' = [scraper EXCEPT !.outcome = "RuntimeError"]
    /\ UNCHANGED <<session_state, screen>>
    /\ UNCHANGED <<pbs_csv, league_csv, pbs, tbs, daily_ranks, player_df,
                   summary_table, export_join, export_df, loaded>>

\* before the call: what each instance serves, and n >= 1
InitScrape ==
    /\ pbs_csv = <<>>
    /\ league_csv = <<>>
    /\ pbs = <<>>
    /\ tbs = <<>>
    /\ daily_ranks = <<>>
    /\ player_df = <<>>
    /\ summary_table = <<>>
    /\ export_join = <<>>
    /\ export_df = <<>>
    /\ loaded = {}
    /\ session_state = NewSession
    /\ screen = NoScreen
    /\ \E n \in 1..MaxN :
           \E pages \in [1..Len(NITTER_INSTANCES) -> Pages] :
               scraper = [NoScrape EXCEPT !.n = n, !.pages = pages]

NextScrape ==
    \/ ScrapeTopNTweets
    \/ TryInstance
    \/ RaiseRuntimeError

SpecScrape == InitScrape /\ [][NextScrape]_vars

-----------------------------------------------------------------------------
(* C30: the fallback of the scraper *)

\* the instances tried so far are the first ones of the shuffled list
TriedInOrder ==
    /\ Len(scraper.tried) <= Len(scraper.instances)
    /\ \A i \in 1..Len(scraper.tried) :
           scraper.tried[i] = scraper.instances[i]

\* no instance is tried twice
TriedOnce ==
    \A i, j \in 1..Len(scraper.tried) :
        scraper.tried[i] = scraper.tried[j] => i = j

\* the instances tried before the last one failed or gave no tweet
MovedOn ==
    \A i \in 1..(Len(scraper.tried) - 1) :
        collect(scraper.pages[scraper.tried[i]].items, <<>>, scraper.n,
                scraper.tried[i]) = <<>>

\* C30: each instance is tried at most once, the call moves on from an
\* instance that failed or gave no tweet, and for n >= 1 it returns between
\* 1 and n tweets of one instance, all with text, or raises RuntimeError
\* once every instance has been tried; it never returns an empty list
C30_ScraperFallback ==
    /\ TriedOnce
    /\ MovedOn
    /\ scraper.outcome = "returned" =>
           /\ Len(scraper.tweets) \in 1..scraper.n
           /\ \A i \in 1..Len(scraper.tweets) :
                  /\ scraper.tweets[i].text # ""
                  /\ scraper.tweets[i].source
                         = scraper.tried[Len(scraper.tried)]
    /\ scraper.outcome = "RuntimeError" =>
           /\ Len(scraper.tried) = Len(NITTER_INSTANCES)
           /\ \A i \in 1..Len(scraper.tried) :
                  collect(scraper.pages[scraper.tried[i]].items, <<>>,
                          scraper.n, scraper.tried[i]) = <<>>

====
